---- MODULE Spec2Model ----
(***************************************************************************)
(* A model of tikbot: the EventHandler publish/subscribe hub               *)
(* (core/events.py), the MusicQueue (music/queue.py), the MusicManager     *)
(* (music/manager.py), the TTSManager (tts/manager.py), the SoundAlerts    *)
(* (audio/alerts.py), and the comment pipeline, the reconnection and the   *)
(* stop of TikBot (core/bot.py).                                           *)
(*                                                                         *)
(* Python strings are sequences of one-character strings, so that          *)
(* lower(), startswith(), split() and the substring test are computed.     *)
(* A Python dict is a function whose DOMAIN is its key set; None is the    *)
(* record None.                                                            *)
(***************************************************************************)
EXTENDS Integers, Sequences, FiniteSets, TLC

VARIABLES
    \* ---- MusicQueue (music/queue.py) ----
    queue,                  \* self.queue: list of MusicRequest
    history,                \* self.history
    current_request,        \* self.current_request (None or a MusicRequest)
    user_request_limits,    \* self.user_request_limits: dict username -> count
    max_queue_size,         \* self.max_queue_size
    max_duration,           \* self.max_duration
    max_requests_per_user,  \* self.max_requests_per_user
    blocked_keywords,       \* self.blocked_keywords
    allowed_platforms,      \* self.allowed_platforms
    music_stats,            \* self.stats
    status,                 \* MusicRequest.status of every request object, by id
    music_result,           \* what the last MusicQueue call returned
    \* ---- EventHandler (core/events.py) ----
    handlers,               \* self._handlers: dict EventType -> list of handlers
    event_history,          \* self._event_history
    emitted,                \* number of Event objects emitted so far
    calls,                  \* the emit() calls in progress or just finished
    \* ---- TTSManager (tts/manager.py) ----
    tts_config,             \* self.config
    engine,                 \* self.engine (None or the engine object)
    enabled,                \* self.enabled
    tts_queue,              \* self.tts_queue: the items of the asyncio.Queue
    is_processing,          \* self.is_processing
    max_length,             \* self.max_length
    min_length,             \* self.min_length
    blocked_words,          \* self.blocked_words
    vip_users,              \* self.vip_users
    tts_stats,              \* self.stats
    is_speaking,            \* self.engine.is_speaking
    consumers,              \* the _process_tts_queue tasks: position and request
    tts_stop,               \* position of the stop() call
    tts_result,             \* what the last request_tts call returned
    \* ---- TikBot (core/bot.py) ----
    bot_stats,              \* self.stats
    commands,               \* self.config.commands
    auto_responses,         \* self.config.auto_responses, in insertion order
    spam_keywords,          \* self.config.spam_keywords
    features,               \* self.config.features
    tts_manager,            \* self._tts_manager (None or the TTSManager)
    client,                 \* self.client
    is_running,             \* self.is_running
    start_time,             \* self.start_time
    start_call,             \* the start() call: not_called, connecting,
                            \* returned or raised
    tts_calls,              \* the request_tts calls the bot made, in order
    \* ---- MusicManager (music/manager.py) ----
    mm_enabled,             \* self.enabled
    allow_explicit,         \* self.allow_explicit
    mm_event_handler,       \* self.event_handler (None or the EventHandler)
    mm_stats,               \* self.stats
    mm_result,              \* what the last request_song call returned
    \* ---- TikBot: connection (core/bot.py, core/config.py) ----
    auto_reconnect,         \* self.config.tiktok.auto_reconnect
    reconnect_delay,        \* self.config.tiktok.reconnect_delay
    now,                    \* the clock, in seconds
    disconnects,            \* the on_disconnect tasks, in order of delivery
    connects,               \* the client.connect() calls of on_disconnect
    stop_call,              \* the stop() call: not_called, disconnecting,
                            \* tts_stopping or returned
    \* ---- SoundAlerts (audio/alerts.py) ----
    alerts,                 \* self.alerts: dict AlertType -> list of SoundAlert
    cooldowns,              \* self.cooldowns: dict alert name -> time
    alert_stats,            \* self.stats
    player_available,       \* self.player.is_available()
    triggers,               \* the trigger_alert calls, in order
    firings,                \* the alerts played with success, in order
    \* ---- AudioPlayer (audio/player.py) ----
    is_initialized,         \* self.is_initialized
    current_volume,         \* self.current_volume, in tenths
    plays,                  \* the play_sound calls that overlap, in order of
                            \* their start
    \* ---- OverlayWebSocket (overlay/websocket.py) ----
    clients,                \* self.clients
    overlay_stats,          \* self.stats
    sockets,                \* each connection and its handle_client task:
                            \* unconnected, open, closed or finished
    broadcasts              \* the broadcast calls, in order

musicVars == <<queue, history, current_request, user_request_limits,
               max_queue_size, max_duration, max_requests_per_user,
               blocked_keywords, allowed_platforms, music_stats, status,
               music_result>>

hubVars == <<handlers, event_history, emitted, calls>>

ttsVars == <<tts_config, engine, enabled, tts_queue, is_processing, max_length,
             min_length, blocked_words, vip_users, tts_stats, is_speaking,
             consumers, tts_stop, tts_result>>

botVars == <<bot_stats, commands, auto_responses, spam_keywords, features,
             tts_manager, client, is_running, start_time, start_call, tts_calls>>

mmVars == <<mm_enabled, allow_explicit, mm_event_handler, mm_stats, mm_result>>

connVars == <<auto_reconnect, reconnect_delay, now, disconnects, connects,
              stop_call>>

alertVars == <<alerts, cooldowns, alert_stats, player_available, triggers,
               firings>>

playerVars == <<is_initialized, current_volume, plays>>

overlayVars == <<clients, overlay_stats, sockets, broadcasts>>

vars == <<musicVars, hubVars, ttsVars, botVars, mmVars, connVars, alertVars,
          playerVars, overlayVars>>

\* what the actions of one subsystem leave alone
nonMusicVars == <<hubVars, ttsVars, botVars, mmVars, connVars, alertVars,
    playerVars, overlayVars>>
nonHubVars == <<musicVars, ttsVars, botVars, mmVars, connVars, alertVars,
    playerVars, overlayVars>>
nonTTSVars == <<musicVars, hubVars, botVars, mmVars, connVars, alertVars,
    playerVars, overlayVars>>
nonBotVars == <<musicVars, mmVars, connVars, alertVars,
    playerVars, overlayVars>>
nonMMVars == <<ttsVars, botVars, connVars, alertVars,
    playerVars, overlayVars>>
nonConnVars == <<musicVars, mmVars, alertVars,
    playerVars, overlayVars>>
nonAlertVars == <<musicVars, hubVars, ttsVars, botVars, mmVars, connVars,
    playerVars, overlayVars>>

nonPlayerVars == <<musicVars, hubVars, ttsVars, botVars, mmVars, connVars,
    alertVars, overlayVars>>
nonOverlayVars == <<musicVars, hubVars, ttsVars, botVars, mmVars, connVars,
    alertVars, playerVars>>

None == [none |-> TRUE]

\* A returned Python bool; every returned value is a record, so that its
\* keys can be tested.
Bool(b) == [bool |-> b]

(***************************************************************************)
(* Bounds of the model.                                                    *)
(***************************************************************************)
MaxRequests == 2        \* music requests accepted in one behaviour
MaxQueue == 2           \* largest configured max_queue_size
MaxPerUser == 2         \* largest configured max_requests_per_user
MaxHandlers == 2        \* handlers registered with the hub at one time
MaxEmits == 2           \* emit() calls in one behaviour of the hub
MaxHistoryEmits == 1002 \* emit() calls in one behaviour of the history run
VariedEvents == 1       \* how many of the first and of the last of those
                        \* events have their type chosen freely
MaxTTSRequests == 4     \* request_tts calls counted by the manager
MaxConsumers == 1       \* initialize() calls that start a consumer task
MaxPublicEvents == 2    \* comments, gifts and follows delivered to the bot
MaxSongRequests == 2    \* request_song calls counted by the MusicManager
MaxDisconnects == 2     \* DisconnectEvents delivered to the bot
MaxTime == 6            \* seconds the clock runs
MaxTriggers == 3        \* trigger_alert calls in one behaviour
MaxSpeech == 3          \* request_tts calls when both queues are drained
MaxComments == 2        \* comments whose emit calls overlap
MaxLoops == 2           \* initialize() calls when the manager is initialized again
MaxPlayed == 21         \* songs played to the end or skipped in a long run
MaxSkips == 2           \* songs skipped in a long run
MaxPlays == 3           \* play_sound calls that overlap
MaxBroadcasts == 2      \* broadcast calls in one behaviour

(***************************************************************************)
(* Python str and dict operations.                                         *)
(***************************************************************************)
LowerChar(c) ==
    CASE c = "A" -> "a"
      [] c = "B" -> "b"
      [] c = "D" -> "d"
      [] c = "E" -> "e"
      [] c = "H" -> "h"
      [] c = "L" -> "l"
      [] c = "P" -> "p"
      [] c = "S" -> "s"
      [] OTHER -> c

lower(s) == [i \in 1..Len(s) |-> LowerChar(s[i])]

\* sub in s
Contains(sub, s) ==
    \E i \in 1..(Len(s) - Len(sub) + 1) : SubSeq(s, i, i + Len(sub) - 1) = sub

\* d.get(k, default)
DictGet(d, k, default) == IF k \in DOMAIN d THEN d[k] ELSE default

\* d[k] = v
DictSet(d, k, v) == [x \in (DOMAIN d) \cup {k} |-> IF x = k THEN v ELSE d[x]]

\* the empty dict
EmptyDict == [x \in {} |-> 0]

\* list.pop(i)
ListPop(l, i) == SubSeq(l, 1, i - 1) \o SubSeq(l, i + 1, Len(l))

(***************************************************************************)
(* MusicQueue                                                              *)
(***************************************************************************)
Users == {"u1", "u2"}
Titles == {<<"A">>, <<"a">>, <<"c">>, <<"b">>}
Artists == {<<"x">>}
Durations == {180, 700}
Platforms == {"spotify", "soundcloud"}

DefaultMaxDuration == 600

\* config['blocked_keywords'], applied by MusicManager.initialize
BlockedKeywords == {<<"B">>}

\* The MusicRequest objects a caller can submit; ids are fresh.
NextId == music_stats.total_requests + 1

RequestInputs ==
    [id : {NextId}, title : Titles, artist : Artists, duration : Durations,
     platform : Platforms, requester : Users]

\* The settings dicts update_settings is called with.
SettingsInputs ==
    {[max_queue_size |-> n] : n \in 1..MaxQueue}
    \cup {[max_requests_per_user |-> n] : n \in 1..MaxPerUser}
    \cup {[max_queue_size |-> MaxQueue, max_requests_per_user |-> MaxPerUser,
           max_duration |-> DefaultMaxDuration,
           blocked_keywords |-> BlockedKeywords,
           allowed_platforms |-> {"spotify", "youtube"}]}

MusicInit ==
    /\ queue = <<>>
    /\ history = <<>>
    /\ current_request = None
    /\ user_request_limits = EmptyDict
    /\ max_queue_size \in 1..MaxQueue
    /\ max_duration = DefaultMaxDuration
    /\ max_requests_per_user \in 1..MaxPerUser
    /\ blocked_keywords = BlockedKeywords
    /\ allowed_platforms = {"spotify", "youtube"}
    /\ music_stats = [total_requests |-> 0, completed_songs |-> 0,
                      skipped_songs |-> 0, failed_songs |-> 0,
                      total_duration_played |-> 0]
    /\ status = [i \in {} |-> "pending"]
    /\ music_result = None

\* title + " " + artist, lowered
TextToCheck(request) == lower(request.title \o <<" ">> \o request.artist)

\* the duplicate test written without lower()
_validate_request_case_sensitive(request) ==
    IF request.duration > max_duration
    THEN [valid |-> FALSE, error |-> "too_long"]
    ELSE IF request.platform \notin allowed_platforms
    THEN [valid |-> FALSE, error |-> "platform"]
    ELSE IF \E keyword \in blocked_keywords :
                Contains(lower(keyword), TextToCheck(request))
    THEN [valid |-> FALSE, error |-> "blocked"]
    ELSE IF \E i \in 1..Len(queue) :
                /\ queue[i].title = request.title
                /\ queue[i].artist = request.artist
    THEN [valid |-> FALSE, error |-> "duplicate"]
    ELSE [valid |-> TRUE]

_validate_request(request) ==
    IF request.duration > max_duration
    THEN [valid |-> FALSE, error |-> "too_long"]
    ELSE IF request.platform \notin allowed_platforms
    THEN [valid |-> FALSE, error |-> "platform"]
    ELSE IF \E keyword \in blocked_keywords :
                Contains(lower(keyword), TextToCheck(request))
    THEN [valid |-> FALSE, error |-> "blocked"]
    ELSE IF \E i \in 1..Len(queue) :
                /\ lower(queue[i].title) = lower(request.title)
                /\ lower(queue[i].artist) = lower(request.artist)
    THEN [valid |-> FALSE, error |-> "duplicate"]
    ELSE [valid |-> TRUE]

add_request(request) ==
    LET validation_result == _validate_request(request)
        user_requests == DictGet(user_request_limits, request.requester, 0)
    IN
    /\ IF ~validation_result.valid
       THEN /\ music_result' = validation_result
            /\ UNCHANGED <<queue, user_request_limits, music_stats, status>>
       ELSE IF Len(queue) >= max_queue_size
       THEN /\ music_result' = [success |-> FALSE, error |-> "queue_full",
                                queue_size |-> Len(queue)]
            /\ UNCHANGED <<queue, user_request_limits, music_stats, status>>
       ELSE IF user_requests >= max_requests_per_user
       THEN /\ music_result' = [success |-> FALSE, error |-> "user_limit",
                                user_requests |-> user_requests]
            /\ UNCHANGED <<queue, user_request_limits, music_stats, status>>
       ELSE /\ queue' = Append(queue, request)
            /\ user_request_limits' =
                   DictSet(user_request_limits, request.requester, user_requests + 1)
            /\ music_stats' = [music_stats EXCEPT !.total_requests = @ + 1]
            /\ status' = DictSet(status, request.id, "pending")
            /\ music_result' = [success |-> TRUE,
                                queue_position |-> Len(queue) + 1,
                                queue_size |-> Len(queue) + 1,
                                request_id |-> request.id]
    /\ UNCHANGED <<history, current_request, max_queue_size, max_duration,
                   max_requests_per_user, blocked_keywords, allowed_platforms>>

\* user_request_limits after "if requester in limits: limits[requester] -= 1"
DecrementUser(limits, requester) ==
    IF requester \in DOMAIN limits
    THEN [limits EXCEPT ![requester] = @ - 1]
    ELSE limits

\* get_next_request taking the newest request instead of the oldest
get_next_request_pops_last ==
    /\ IF queue = <<>>
       THEN /\ music_result' = None
            /\ UNCHANGED <<queue, history, current_request, user_request_limits,
                           music_stats, status>>
       ELSE LET completing == current_request # None
                next == queue[Len(queue)]
                status1 == IF completing
                           THEN [status EXCEPT ![current_request.id] = "completed"]
                           ELSE status
            IN
            /\ history' = IF completing THEN Append(history, current_request)
                          ELSE history
            /\ music_stats' =
                   IF completing
                   THEN [music_stats EXCEPT
                            !.completed_songs = @ + 1,
                            !.total_duration_played = @ + current_request.duration]
                   ELSE music_stats
            /\ user_request_limits' =
                   IF completing
                   THEN DecrementUser(user_request_limits, current_request.requester)
                   ELSE user_request_limits
            /\ current_request' = next
            /\ queue' = SubSeq(queue, 1, Len(queue) - 1)
            /\ status' = [status1 EXCEPT ![next.id] = "playing"]
            /\ music_result' = next
    /\ UNCHANGED <<max_queue_size, max_duration, max_requests_per_user,
                   blocked_keywords, allowed_platforms>>

\* get_next_request reading queue[0] without popping it
get_next_request_keeps_head ==
    /\ IF queue = <<>>
       THEN /\ music_result' = None
            /\ UNCHANGED <<queue, history, current_request, user_request_limits,
                           music_stats, status>>
       ELSE LET completing == current_request # None
                next == Head(queue)
                status1 == IF completing
                           THEN [status EXCEPT ![current_request.id] = "completed"]
                           ELSE status
            IN
            /\ history' = IF completing THEN Append(history, current_request)
                          ELSE history
            /\ music_stats' =
                   IF completing
                   THEN [music_stats EXCEPT
                            !.completed_songs = @ + 1,
                            !.total_duration_played = @ + current_request.duration]
                   ELSE music_stats
            /\ user_request_limits' =
                   IF completing
                   THEN DecrementUser(user_request_limits, current_request.requester)
                   ELSE user_request_limits
            /\ current_request' = next
            /\ queue' = queue
            /\ status' = [status1 EXCEPT ![next.id] = "playing"]
            /\ music_result' = next
    /\ UNCHANGED <<max_queue_size, max_duration, max_requests_per_user,
                   blocked_keywords, allowed_platforms>>

get_next_request ==
    /\ IF queue = <<>>
       THEN /\ music_result' = None
            /\ UNCHANGED <<queue, history, current_request, user_request_limits,
                           music_stats, status>>
       ELSE LET completing == current_request # None
                next == Head(queue)
                status1 == IF completing
                           THEN [status EXCEPT ![current_request.id] = "completed"]
                           ELSE status
            IN
            /\ history' = IF completing THEN Append(history, current_request)
                          ELSE history
            /\ music_stats' =
                   IF completing
                   THEN [music_stats EXCEPT
                            !.completed_songs = @ + 1,
                            !.total_duration_played = @ + current_request.duration]
                   ELSE music_stats
            /\ user_request_limits' =
                   IF completing
                   THEN DecrementUser(user_request_limits, current_request.requester)
                   ELSE user_request_limits
            /\ current_request' = next
            /\ queue' = Tail(queue)
            /\ status' = [status1 EXCEPT ![next.id] = "playing"]
            /\ music_result' = next
    /\ UNCHANGED <<max_queue_size, max_duration, max_requests_per_user,
                   blocked_keywords, allowed_platforms>>

\* skip_current without "self.current_request = None"
skip_current_keeps_current ==
    /\ IF current_request = None
       THEN /\ music_result' = Bool(FALSE)
            /\ UNCHANGED <<history, current_request, user_request_limits,
                           music_stats, status>>
       ELSE /\ status' = [status EXCEPT ![current_request.id] = "skipped"]
            /\ history' = Append(history, current_request)
            /\ music_stats' = [music_stats EXCEPT !.skipped_songs = @ + 1]
            /\ user_request_limits' =
                   DecrementUser(user_request_limits, current_request.requester)
            /\ current_request' = current_request
            /\ music_result' = Bool(TRUE)
    /\ UNCHANGED <<queue, max_queue_size, max_duration, max_requests_per_user,
                   blocked_keywords, allowed_platforms>>

skip_current ==
    /\ IF current_request = None
       THEN /\ music_result' = Bool(FALSE)
            /\ UNCHANGED <<history, current_request, user_request_limits,
                           music_stats, status>>
       ELSE /\ status' = [status EXCEPT ![current_request.id] = "skipped"]
            /\ history' = Append(history, current_request)
            /\ music_stats' = [music_stats EXCEPT !.skipped_songs = @ + 1]
            /\ user_request_limits' =
                   DecrementUser(user_request_limits, current_request.requester)
            /\ current_request' = None
            /\ music_result' = Bool(TRUE)
    /\ UNCHANGED <<queue, max_queue_size, max_duration, max_requests_per_user,
                   blocked_keywords, allowed_platforms>>

\* requester is None (an administrator) or a user name
remove_request(request_id, requester) ==
    LET found == {i \in 1..Len(queue) : queue[i].id = request_id}
        i == CHOOSE j \in found : \A k \in found : j <= k
    IN
    /\ IF found = {}
       THEN /\ music_result' = Bool(FALSE)
            /\ UNCHANGED <<queue, user_request_limits>>
       ELSE IF requester # None /\ queue[i].requester # requester.name
       THEN /\ music_result' = Bool(FALSE)
            /\ UNCHANGED <<queue, user_request_limits>>
       ELSE /\ queue' = ListPop(queue, i)
            /\ user_request_limits' =
                   DecrementUser(user_request_limits, queue[i].requester)
            /\ music_result' = Bool(TRUE)
    /\ UNCHANGED <<history, current_request, music_stats, status, max_queue_size,
                   max_duration, max_requests_per_user, blocked_keywords,
                   allowed_platforms>>

clear_queue(admin) ==
    /\ IF ~admin
       THEN /\ music_result' = Bool(FALSE)
            /\ UNCHANGED <<queue, user_request_limits>>
       ELSE /\ queue' = <<>>
            /\ user_request_limits' = EmptyDict
            /\ music_result' = Bool(TRUE)
    /\ UNCHANGED <<history, current_request, music_stats, status, max_queue_size,
                   max_duration, max_requests_per_user, blocked_keywords,
                   allowed_platforms>>

update_settings(settings) ==
    /\ max_queue_size' = DictGet(settings, "max_queue_size", max_queue_size)
    /\ max_duration' = DictGet(settings, "max_duration", max_duration)
    /\ max_requests_per_user' =
           DictGet(settings, "max_requests_per_user", max_requests_per_user)
    /\ blocked_keywords' = DictGet(settings, "blocked_keywords", blocked_keywords)
    /\ allowed_platforms' = DictGet(settings, "allowed_platforms", allowed_platforms)
    /\ music_result' = None
    /\ UNCHANGED <<queue, history, current_request, user_request_limits,
                   music_stats, status>>

AddRequest ==
    /\ music_stats.total_requests < MaxRequests
    /\ \E request \in RequestInputs : add_request(request)

GetNextRequest == get_next_request

SkipCurrent == skip_current

RemoveRequest ==
    \E request_id \in 1..MaxRequests :
        \E requester \in {None} \cup {[name |-> u] : u \in Users} :
            remove_request(request_id, requester)

ClearQueue == \E admin \in BOOLEAN : clear_queue(admin)

UpdateSettings == \E settings \in SettingsInputs : update_settings(settings)

\* MusicQueue driven through add_request, get_next_request, skip_current,
\* remove_request and clear_queue under a fixed configuration.
MusicQueueNext ==
    \/ AddRequest /\ UNCHANGED nonMusicVars
    \/ GetNextRequest /\ UNCHANGED nonMusicVars
    \/ SkipCurrent /\ UNCHANGED nonMusicVars
    \/ RemoveRequest /\ UNCHANGED nonMusicVars
    \/ ClearQueue /\ UNCHANGED nonMusicVars


\* The same, with update_settings.
MusicNext ==
    \/ AddRequest /\ UNCHANGED nonMusicVars
    \/ GetNextRequest /\ UNCHANGED nonMusicVars
    \/ SkipCurrent /\ UNCHANGED nonMusicVars
    \/ RemoveRequest /\ UNCHANGED nonMusicVars
    \/ ClearQueue /\ UNCHANGED nonMusicVars
    \/ UpdateSettings /\ UNCHANGED nonMusicVars


\* Admission alone: requests are submitted, played in turn and cleared.
MusicAdmissionNext ==
    \/ AddRequest /\ UNCHANGED nonMusicVars
    \/ GetNextRequest /\ UNCHANGED nonMusicVars
    \/ ClearQueue /\ UNCHANGED nonMusicVars

(***************************************************************************)
(* Properties of the MusicQueue                                            *)
(***************************************************************************)
\* The requests of u that are pending in the queue or currently playing.
Outstanding(u) ==
    Cardinality({i \in 1..Len(queue) : queue[i].requester = u})
    + (IF current_request # None /\ current_request.requester = u THEN 1 ELSE 0)

QuotaError(result) ==
    /\ "success" \in DOMAIN result
    /\ ~result.success
    /\ result.error = "user_limit"

Accepted(result) == "success" \in DOMAIN result /\ result.success

\* C3: admission enforces capacity strictly: an acceptance never takes the
\* queue beyond max_queue_size, and after any sequence of add_request,
\* get_next_request, skip_current, remove_request, clear_queue and
\* update_settings the number of pending requests never exceeds the
\* configured maximum.
C3_QueueWithinConfiguredMax ==
    /\ Len(queue) <= max_queue_size
    /\ (Accepted(music_result) => music_result.queue_size <= max_queue_size)

\* C4: a requester with max_requests_per_user accepted requests outstanding
\* has the next (valid, non-duplicate, queue not full) submission rejected
\* with the quota error, and a requester below the quota has it accepted.
C4_QuotaRejectsAtN ==
    [][\A request \in RequestInputs :
          (/\ add_request(request)
           /\ _validate_request(request).valid
           /\ Len(queue) < max_queue_size)
          => /\ (Outstanding(request.requester) >= max_requests_per_user
                    => QuotaError(music_result'))
             /\ (Outstanding(request.requester) < max_requests_per_user
                    => Accepted(music_result'))]_vars

\* C5: no requester has more than max_requests_per_user requests
\* outstanding (pending or playing) at once.
C5_OutstandingWithinQuota ==
    \A u \in Users : Outstanding(u) <= max_requests_per_user

StatusRank(s) ==
    CASE s = "pending" -> 1
      [] s = "playing" -> 2
      [] s \in {"completed", "skipped", "failed"} -> 3

\* C7: the status of an accepted request only moves forward through
\* pending -> playing -> {completed, skipped, failed}, and a terminal status
\* never changes again.
C7_StatusMonotonic ==
    [][\A id \in DOMAIN status :
          \/ status'[id] = status[id]
          \/ StatusRank(status[id]) < StatusRank(status'[id])]_vars

\* C7 witness: one request was played to completion and a later one skipped.
C7_Witness ==
    /\ \E id \in DOMAIN status : status[id] = "completed"
    /\ \E id \in DOMAIN status : status[id] = "skipped"
(***************************************************************************)
(* EventHandler                                                            *)
(*                                                                         *)
(* An Event is [type, id, data]; id numbers the Event objects in the order *)
(* of their emission and stands for the object's identity.  A call of      *)
(* emit() is a record of calls: the tasks it handed to asyncio.gather, one *)
(* per registered handler, and whether it is still waiting ("gathering"),  *)
(* has returned or has raised.                                             *)
(***************************************************************************)
_max_history == 1000

HubEventTypes == {"gift"}

\* Handlers a subscriber can register: a coroutine function or a plain
\* function, which returns or raises.
GenericHandlers == {"async_ok", "async_raises", "sync_ok", "sync_raises"}

iscoroutinefunction(handler) ==
    handler \in {"async_ok", "async_raises",
                 "handle_comment", "handle_gift", "handle_follow",
                 "on_music_command"}

\* on_music_command calls event.get() on an Event, which has no get
Raises(handler) ==
    handler \in {"async_raises", "sync_raises", "on_music_command"}

HubInit ==
    /\ handlers = EmptyDict
    /\ event_history = <<>>
    /\ emitted = 0
    /\ calls = <<>>

add_handler(event_type, handler) ==
    /\ handlers' = DictSet(handlers, event_type,
                           Append(DictGet(handlers, event_type, <<>>), handler))
    /\ UNCHANGED <<event_history, emitted, calls>>

\* list.remove(x): drops the first occurrence; the ValueError is swallowed
ListRemove(l, x) ==
    LET found == {i \in 1..Len(l) : l[i] = x}
    IN IF found = {} THEN l
       ELSE ListPop(l, CHOOSE i \in found : \A j \in found : i <= j)

\* remove_handler that drops every registration of the handler
remove_handler_all(event_type, handler) ==
    /\ handlers' = IF event_type \in DOMAIN handlers
                   THEN [handlers EXCEPT
                           ![event_type] = SelectSeq(@, LAMBDA x : x # handler)]
                   ELSE handlers
    /\ UNCHANGED <<event_history, emitted, calls>>

remove_handler(event_type, handler) ==
    /\ handlers' = IF event_type \in DOMAIN handlers
                   THEN [handlers EXCEPT ![event_type] = ListRemove(@, handler)]
                   ELSE handlers
    /\ UNCHANGED <<event_history, emitted, calls>>

\* emit() written with insert(0, event) instead of append(event)
HistoryAfterEmit_prepends(h, event) ==
    LET inserted == <<event>> \o h
    IN IF Len(inserted) > _max_history THEN Tail(inserted) ELSE inserted

\* the eviction written as pop() instead of pop(0)
HistoryAfterEmit_pops_newest(h, event) ==
    LET appended == Append(h, event)
    IN IF Len(appended) > _max_history
       THEN SubSeq(appended, 1, Len(appended) - 1)
       ELSE appended

\* self._event_history after the append and the eviction of emit
HistoryAfterEmit(h, event) ==
    LET appended == Append(h, event)
    IN IF Len(appended) > _max_history THEN Tail(appended) ELSE appended

\* the tasks list emit builds: the coroutine of an async handler, the
\* executor future of a sync one
EmitTasks(event) ==
    IF event.type \in DOMAIN handlers
    THEN [i \in 1..Len(handlers[event.type]) |->
            [handler |-> handlers[event.type][i],
             runs |-> IF iscoroutinefunction(handlers[event.type][i])
                      THEN "loop" ELSE "executor",
             pc |-> "pending"]]
    ELSE <<>>

\* asyncio.gather(*tasks, return_exceptions=...): "pending" while it waits,
\* then what the await does
gather(tasks, return_exceptions) ==
    IF ~return_exceptions /\ \E i \in 1..Len(tasks) : tasks[i].pc = "raised"
    THEN "raised"
    ELSE IF \A i \in 1..Len(tasks) : tasks[i].pc \in {"returned", "raised"}
    THEN "returned"
    ELSE "pending"

\* await asyncio.gather(*tasks) as emit() calls it
\* emit() written without the await: the tasks are left running
EmitGather_not_awaited(tasks) == "returned"

EmitGather_propagates(tasks) == gather(tasks, FALSE)

EmitGather(tasks) == gather(tasks, TRUE)

\* emit(event) up to its await: the history is updated and the tasks are
\* created; without tasks emit returns at once.  frames are the calls the
\* new one is added to.
emit(event, frames) ==
    LET tasks == EmitTasks(event)
    IN
    /\ event_history' = HistoryAfterEmit(event_history, event)
    /\ emitted' = emitted + 1
    /\ calls' = Append(frames, [event |-> event, tasks |-> tasks,
                                state |-> IF tasks = <<>> THEN "returned"
                                          ELSE "gathering"])
    /\ UNCHANGED handlers

\* one handler task runs to its end: it returns or raises
HandlerRun(c, i) ==
    /\ calls[c].tasks[i].pc = "pending"
    /\ calls' = [calls EXCEPT ![c].tasks[i].pc =
                    IF Raises(calls[c].tasks[i].handler) THEN "raised" ELSE "returned"]
    /\ UNCHANGED <<handlers, event_history, emitted>>

\* the await of emit() finishes: emit returns, or raises what gather raised
EmitReturn(c) ==
    /\ calls[c].state = "gathering"
    /\ EmitGather(calls[c].tasks) # "pending"
    /\ calls' = [calls EXCEPT ![c].state = EmitGather(calls[c].tasks)]
    /\ UNCHANGED <<handlers, event_history, emitted>>

\* l[-limit:]
SliceFromMinus(l, limit) ==
    IF limit > 0
    THEN SubSeq(l, IF Len(l) > limit THEN Len(l) - limit + 1 ELSE 1, Len(l))
    ELSE SubSeq(l, 1 - limit, Len(l))

\* event_type is None or [type |-> t]
get_event_history(event_type, limit) ==
    LET OfType(e) == e.type = event_type.type
        filtered == IF event_type # None
                    THEN SelectSeq(event_history, OfType)
                    ELSE event_history
    IN IF limit # 0 THEN SliceFromMinus(filtered, limit) ELSE filtered

clear_history ==
    /\ event_history' = <<>>
    /\ UNCHANGED <<handlers, emitted, calls>>

NewEvent(event_type) == [type |-> event_type, id |-> emitted + 1, data |-> EmptyDict]

AddHandler ==
    \E event_type \in HubEventTypes : \E handler \in GenericHandlers :
        /\ \A t \in DOMAIN handlers : Len(handlers[t]) < MaxHandlers
        /\ add_handler(event_type, handler)

RemoveHandler ==
    \E event_type \in HubEventTypes : \E handler \in GenericHandlers :
        remove_handler(event_type, handler)

\* The caller of the hub awaits each emit before the next one; the record of
\* the call before is dropped.
Emit ==
    /\ emitted < MaxEmits
    /\ \A c \in 1..Len(calls) : calls[c].state # "gathering"
    /\ \E event_type \in HubEventTypes : emit(NewEvent(event_type), <<>>)

RunHandler == \E c \in 1..Len(calls) : \E i \in 1..Len(calls[c].tasks) : HandlerRun(c, i)

ReturnFromEmit == \E c \in 1..Len(calls) : EmitReturn(c)

ClearHistory == clear_history

HubNext ==
    \/ AddHandler /\ UNCHANGED nonHubVars
    \/ RemoveHandler /\ UNCHANGED nonHubVars
    \/ Emit /\ UNCHANGED nonHubVars
    \/ RunHandler /\ UNCHANGED nonHubVars
    \/ ReturnFromEmit /\ UNCHANGED nonHubVars
    \/ ClearHistory /\ UNCHANGED nonHubVars

\* The registry alone: one coroutine function and one plain function that
\* raises are registered and removed, in any order and any number of times.
RegistryHandlers == {"async_ok", "sync_raises"}

Register ==
    \E event_type \in HubEventTypes : \E handler \in RegistryHandlers :
        /\ \A t \in DOMAIN handlers : Len(handlers[t]) < MaxHandlers
        /\ add_handler(event_type, handler)

Unregister ==
    \E event_type \in HubEventTypes : \E handler \in RegistryHandlers :
        remove_handler(event_type, handler)

RegistryNext ==
    \/ Register /\ UNCHANGED nonHubVars
    \/ Unregister /\ UNCHANGED nonHubVars
    \/ Emit /\ UNCHANGED nonHubVars
    \/ RunHandler /\ UNCHANGED nonHubVars
    \/ ReturnFromEmit /\ UNCHANGED nonHubVars

\* A long run of emits on a hub without handlers.  The first and the last
\* VariedEvents events are of either type, those between are comments.
HistoryEventTypes == {"comment", "gift"}

HistoryEmit ==
    /\ emitted < MaxHistoryEmits
    /\ \E event_type \in HistoryEventTypes :
          /\ \/ emitted < VariedEvents
             \/ emitted >= MaxHistoryEmits - VariedEvents
             \/ event_type = "comment"
          /\ emit(NewEvent(event_type), <<>>)

HistoryNext == HistoryEmit /\ UNCHANGED nonHubVars

(***************************************************************************)
(* TTSManager                                                              *)
(*                                                                         *)
(* A TTSRequest is [text, username, priority].  The consumer task          *)
(* _process_tts_queue is followed from one await to the next: "created"    *)
(* (scheduled by create_task), "get" (in wait_for(self.tts_queue.get())),  *)
(* "speak" (in engine.speak), "speak_replaced" (in engine.speak of an      *)
(* engine that initialize has replaced since), "sleep" (in asyncio.sleep)  *)
(* and "done".                                                             *)
(***************************************************************************)
TTSMaxSize == 50

DefaultMaxLength == 100

DefaultMinLength == 1

\* the per-user maximum an operator writes into the TTS configuration
PerUserMax == 3

\* the engine object create_tts_engine returns
Engine == [engine |-> "pyttsx3"]

TTSUsers == {"alice", "bob"}

TTSTexts == {<<"h", "i">>, <<"1", " ", "2">>, <<>>}

TTSPriorities == {1, 2}

\* BotConfig.tts.model_dump(): the dict TikBot.start() hands to TTSManager
TTSModelDump ==
    [engine |-> "pyttsx3", voice_rate |-> 150, voice_volume |-> "0.8",
     language |-> "ko", azure_key |-> None, azure_region |-> None]

\* The config dicts a TTSManager is constructed with.
TTSConfigs ==
    {[enabled |-> TRUE, max_requests_per_user |-> PerUserMax], TTSModelDump}

\* The config dicts update_config is called with.
TTSConfigUpdates ==
    {[enabled |-> FALSE], [enabled |-> TRUE],
     [max_length |-> 2, min_length |-> 2, blocked_words |-> {<<"1">>},
      vip_users |-> {"alice"}, voice_rate |-> 200]}

\* TTSManager(config): the fields __init__ assigns
TTSManager(config) ==
    [tts_config |-> config,
     engine |-> None,
     enabled |-> DictGet(config, "enabled", FALSE),
     tts_queue |-> <<>>,
     is_processing |-> FALSE,
     max_length |-> DictGet(config, "max_length", DefaultMaxLength),
     min_length |-> DictGet(config, "min_length", DefaultMinLength),
     blocked_words |-> DictGet(config, "blocked_words", {}),
     vip_users |-> DictGet(config, "vip_users", {}),
     tts_stats |-> [total_requests |-> 0, successful_plays |-> 0,
                    filtered_messages |-> 0, queue_full_drops |-> 0]]

\* the state of a manager just constructed with config
TTSConstructed(config) ==
    LET new == TTSManager(config)
    IN /\ tts_config = new.tts_config
       /\ engine = new.engine
       /\ enabled = new.enabled
       /\ tts_queue = new.tts_queue
       /\ is_processing = new.is_processing
       /\ max_length = new.max_length
       /\ min_length = new.min_length
       /\ blocked_words = new.blocked_words
       /\ vip_users = new.vip_users
       /\ tts_stats = new.tts_stats
       /\ is_speaking = FALSE
       /\ consumers = <<>>
       /\ tts_stop = "idle"
       /\ tts_result = None

TTSInit == \E config \in TTSConfigs : TTSConstructed(config)

\* d.update(other)
DictUpdate(d, other) ==
    [k \in (DOMAIN d) \cup (DOMAIN other) |->
        IF k \in DOMAIN other THEN other[k] ELSE d[k]]

\* s.replace(' ', '')
RemoveSpaces(s) == SelectSeq(s, LAMBDA c : c # " ")

\* str.isdigit(): not empty and every character a digit
isdigit(s) ==
    /\ s # <<>>
    /\ \A i \in 1..Len(s) :
          s[i] \in {"0", "1", "2", "3", "4", "5", "6", "7", "8", "9"}

_is_text_valid(text, username) ==
    LET text_lower == lower(text)
    IN IF Len(text) < min_length \/ Len(text) > max_length THEN FALSE
       ELSE IF \E word \in blocked_words : Contains(word, text_lower) THEN FALSE
       ELSE IF \/ Contains(<<"h", "t", "t", "p">>, text_lower)
               \/ Contains(<<"w", "w", "w", ".">>, text_lower) THEN FALSE
       ELSE IF isdigit(RemoveSpaces(text)) THEN FALSE
       ELSE TRUE

\* the while condition of _process_tts_queue
ConsumerContinues == enabled /\ engine # None

\* a speak call is in progress in consumer task k
InSpeak(k) == consumers[k].pc \in {"speak", "speak_replaced"}

\* self.engine is assigned a new engine object: the speak calls in progress
\* run on the engine that was replaced, and end without touching the
\* is_speaking flag of the new one
OnReplacedEngine(tasks) ==
    [k \in 1..Len(tasks) |->
        IF tasks[k].pc = "speak" THEN [tasks[k] EXCEPT !.pc = "speak_replaced"]
        ELSE tasks[k]]

\* create_tts_engine returns an engine or None; engine.set_voice_rate /
\* set_voice_volume return, or raise
initialize(outcome) ==
    IF ~enabled
    THEN UNCHANGED ttsVars
    ELSE /\ engine' = IF outcome = "no_engine" THEN None ELSE Engine
         /\ consumers' = IF outcome = "engine"
                         THEN Append(OnReplacedEngine(consumers),
                                     [pc |-> "created", request |-> None])
                         ELSE OnReplacedEngine(consumers)
         /\ enabled' = IF outcome = "raises" THEN FALSE ELSE enabled
         /\ is_speaking' = IF outcome = "no_engine" THEN is_speaking ELSE FALSE
         /\ UNCHANGED <<tts_config, tts_queue, is_processing, max_length,
                        min_length, blocked_words, vip_users, tts_stats,
                        tts_stop, tts_result>>

\* id stands for the identity of the TTSRequest object: the number of the
\* call that made it
request_tts(text, username, priority) ==
    /\ IF ~enabled \/ engine = None
       THEN /\ tts_result' = Bool(FALSE)
            /\ UNCHANGED <<tts_queue, tts_stats>>
       ELSE IF ~_is_text_valid(text, username)
       THEN /\ tts_stats' = [tts_stats EXCEPT !.total_requests = @ + 1,
                                              !.filtered_messages = @ + 1]
            /\ tts_result' = Bool(FALSE)
            /\ UNCHANGED tts_queue
       ELSE IF Len(tts_queue) >= TTSMaxSize
       THEN /\ tts_stats' = [tts_stats EXCEPT !.total_requests = @ + 1,
                                              !.queue_full_drops = @ + 1]
            /\ tts_result' = Bool(FALSE)
            /\ UNCHANGED tts_queue
       ELSE /\ tts_queue' = Append(tts_queue, [id |-> tts_stats.total_requests + 1,
                                               text |-> text, username |-> username,
                                               priority |-> priority])
            /\ tts_stats' = [tts_stats EXCEPT !.total_requests = @ + 1]
            /\ tts_result' = Bool(TRUE)
    /\ UNCHANGED <<tts_config, engine, enabled, is_processing, max_length,
                   min_length, blocked_words, vip_users, is_speaking, consumers,
                   tts_stop>>

\* the task starts: is_processing is set and the loop condition is tested
ConsumerStart(k) ==
    /\ consumers[k].pc = "created"
    /\ consumers' = [consumers EXCEPT ![k].pc =
                        IF ConsumerContinues THEN "get" ELSE "done"]
    /\ is_processing' = ConsumerContinues
    /\ UNCHANGED <<tts_config, engine, enabled, tts_queue, max_length, min_length,
                   blocked_words, vip_users, tts_stats, is_speaking, tts_stop,
                   tts_result>>

\* get() delivers the head of the queue; the request goes to engine.speak,
\* which returns False at once when the engine is already speaking
ConsumerGet(k) ==
    /\ consumers[k].pc = "get"
    /\ tts_queue # <<>>
    /\ LET got == Head(tts_queue)
           request == IF got.username \in vip_users
                      THEN [got EXCEPT !.priority = 1] ELSE got
       IN /\ tts_queue' = Tail(tts_queue)
          /\ consumers' = [consumers EXCEPT
                              ![k] = IF is_speaking
                                     THEN [pc |-> "sleep", request |-> None]
                                     ELSE [pc |-> "speak", request |-> request]]
          /\ is_speaking' = TRUE
    /\ UNCHANGED <<tts_config, engine, enabled, is_processing, max_length,
                   min_length, blocked_words, vip_users, tts_stats, tts_stop,
                   tts_result>>

\* wait_for times out on an empty queue: continue, and the loop condition
\* is tested again
ConsumerTimeout(k) ==
    /\ consumers[k].pc = "get"
    /\ tts_queue = <<>>
    /\ consumers' = [consumers EXCEPT ![k].pc =
                        IF ConsumerContinues THEN "get" ELSE "done"]
    /\ is_processing' = IF ConsumerContinues THEN is_processing ELSE FALSE
    /\ UNCHANGED <<tts_config, engine, enabled, tts_queue, max_length, min_length,
                   blocked_words, vip_users, tts_stats, is_speaking, tts_stop,
                   tts_result>>

\* the loop written to end when engine.speak reports a failure
ConsumerSpoke_ends_on_failure(k, success) ==
    /\ InSpeak(k)
    /\ is_speaking' = IF consumers[k].pc = "speak" THEN FALSE ELSE is_speaking
    /\ tts_stats' = IF success
                    THEN [tts_stats EXCEPT !.successful_plays = @ + 1]
                    ELSE tts_stats
    /\ consumers' = [consumers EXCEPT
                        ![k] = [pc |-> IF success THEN "sleep" ELSE "done",
                                request |-> None]]
    /\ UNCHANGED <<tts_config, engine, enabled, tts_queue, is_processing,
                   max_length, min_length, blocked_words, vip_users, tts_stop,
                   tts_result>>

\* engine.speak returns: True after playing, False when playing failed
ConsumerSpoke(k, success) ==
    /\ InSpeak(k)
    /\ is_speaking' = IF consumers[k].pc = "speak" THEN FALSE ELSE is_speaking
    /\ tts_stats' = IF success
                    THEN [tts_stats EXCEPT !.successful_plays = @ + 1]
                    ELSE tts_stats
    /\ consumers' = [consumers EXCEPT ![k] = [pc |-> "sleep", request |-> None]]
    /\ UNCHANGED <<tts_config, engine, enabled, tts_queue, is_processing,
                   max_length, min_length, blocked_words, vip_users, tts_stop,
                   tts_result>>

\* engine.speak raises: the engine's finally clause has run, the except
\* clause of the loop logs the error and sleeps
ConsumerSpeakRaises(k) ==
    /\ InSpeak(k)
    /\ is_speaking' = IF consumers[k].pc = "speak" THEN FALSE ELSE is_speaking
    /\ consumers' = [consumers EXCEPT ![k] = [pc |-> "sleep", request |-> None]]
    /\ UNCHANGED <<tts_config, engine, enabled, tts_queue, is_processing,
                   max_length, min_length, blocked_words, vip_users, tts_stats,
                   tts_stop, tts_result>>

\* asyncio.sleep(0.5), or asyncio.sleep(1) after an exception, is over and
\* the loop condition is tested again
ConsumerWakes(k) ==
    /\ consumers[k].pc = "sleep"
    /\ consumers' = [consumers EXCEPT ![k].pc =
                        IF ConsumerContinues THEN "get" ELSE "done"]
    /\ is_processing' = IF ConsumerContinues THEN is_processing ELSE FALSE
    /\ UNCHANGED <<tts_config, engine, enabled, tts_queue, max_length, min_length,
                   blocked_words, vip_users, tts_stats, is_speaking, tts_stop,
                   tts_result>>

update_config(config) ==
    /\ tts_config' = DictUpdate(tts_config, config)
    /\ enabled' = DictGet(config, "enabled", enabled)
    /\ max_length' = DictGet(config, "max_length", max_length)
    /\ min_length' = DictGet(config, "min_length", min_length)
    /\ blocked_words' = DictGet(config, "blocked_words", blocked_words)
    /\ vip_users' = DictGet(config, "vip_users", vip_users)
    /\ UNCHANGED <<engine, tts_queue, is_processing, tts_stats, is_speaking,
                   consumers, tts_stop, tts_result>>

\* TTSManager.clear_queue
tts_clear_queue ==
    /\ tts_queue' = <<>>
    /\ UNCHANGED <<tts_config, engine, enabled, is_processing, max_length,
                   min_length, blocked_words, vip_users, tts_stats, is_speaking,
                   consumers, tts_stop, tts_result>>

\* TTSManager.stop up to its await: without a consumer it returns at once
tts_stop_begins ==
    /\ tts_stop # "sleeping"
    /\ enabled' = FALSE
    /\ tts_queue' = <<>>
    /\ tts_stop' = IF is_processing THEN "sleeping" ELSE "returned"
    /\ UNCHANGED <<tts_config, engine, is_processing, max_length, min_length,
                   blocked_words, vip_users, tts_stats, is_speaking, consumers,
                   tts_result>>

\* asyncio.sleep(2) of stop is over
tts_stop_returns ==
    /\ tts_stop = "sleeping"
    /\ tts_stop' = "returned"
    /\ UNCHANGED <<tts_config, engine, enabled, tts_queue, is_processing,
                   max_length, min_length, blocked_words, vip_users, tts_stats,
                   is_speaking, consumers, tts_result>>

Initialize ==
    /\ Len(consumers) < MaxConsumers
    /\ \E outcome \in {"engine", "no_engine", "raises"} : initialize(outcome)

RequestTTS ==
    /\ tts_stats.total_requests < MaxTTSRequests
    /\ \E text \in TTSTexts : \E username \in TTSUsers : \E priority \in TTSPriorities :
          request_tts(text, username, priority)

ConsumerStep ==
    \E k \in 1..Len(consumers) :
        \/ ConsumerStart(k)
        \/ ConsumerGet(k)
        \/ ConsumerTimeout(k)
        \/ \E success \in BOOLEAN : ConsumerSpoke(k, success)
        \/ ConsumerSpeakRaises(k)
        \/ ConsumerWakes(k)

UpdateConfig == \E config \in TTSConfigUpdates : update_config(config)

ClearTTSQueue == tts_clear_queue

StopTTS == tts_stop_begins \/ tts_stop_returns

TTSNext ==
    \/ Initialize /\ UNCHANGED nonTTSVars
    \/ RequestTTS /\ UNCHANGED nonTTSVars
    \/ ConsumerStep /\ UNCHANGED nonTTSVars
    \/ UpdateConfig /\ UNCHANGED nonTTSVars
    \/ ClearTTSQueue /\ UNCHANGED nonTTSVars
    \/ StopTTS /\ UNCHANGED nonTTSVars

(***************************************************************************)
(* TikBot: the comment pipeline                                            *)
(*                                                                         *)
(* The bot is configured with sound alerts, music and overlay switched     *)
(* off, so that the internal handlers are the only subscribers of the hub  *)
(* and an emit_simple of a COMMAND, AUTO_RESPONSE, SPAM_DETECTED or        *)
(* BOT_START event returns without awaiting: handle_comment then runs      *)
(* from its first statement to its last without a suspension.              *)
(*                                                                         *)
(* Events emitted by a handler carry the id of the event the handler was   *)
(* called with in the field cause; the field is not part of the program.   *)
(* The Korean texts of the default configuration are written as ASCII      *)
(* stand-ins.                                                              *)
(***************************************************************************)
BotUsers == {"alice"}

\* "!stats", "!HELP bye", "!help AD", "!tts  hi", "bye hi"
Comments ==
    {<<"!", "s", "t", "a", "t", "s">>,
     <<"!", "H", "E", "L", "P", " ", "b", "y", "e">>,
     <<"!", "h", "e", "l", "p", " ", "A", "D">>,
     <<"!", "t", "t", "s", " ", " ", "h", "i">>,
     <<"b", "y", "e", " ", "h", "i">>}

StatsCommand == <<"!", "s", "t", "a", "t", "s">>

TimeCommand == <<"!", "t", "i", "m", "e">>

CommandsCommand == <<"!", "c", "o", "m", "m", "a", "n", "d", "s">>

HelpCommand == <<"!", "h", "e", "l", "p">>

InfoCommand == <<"!", "i", "n", "f", "o">>

\* BotConfig.commands default
DefaultCommands ==
    [command \in {HelpCommand, InfoCommand, TimeCommand} |->
        IF command = HelpCommand THEN "help_text"
        ELSE IF command = InfoCommand THEN "info_text" ELSE "time_text"]

\* BotConfig.auto_responses, a dict in insertion order
DefaultAutoResponses ==
    <<[keyword |-> <<"h", "i">>, responses |-> <<"hello">>],
      [keyword |-> <<"b", "y", "e">>, responses |-> <<"goodbye", "see_you">>]>>

\* BotConfig.spam_keywords
DefaultSpamKeywords == <<<<"a", "d">>>>

\* BotConfig.features: the defaults, and configurations with TTS enabled
DefaultFeatures ==
    [auto_response |-> TRUE, tts_enabled |-> FALSE, spam_filter |-> TRUE,
     command_processing |-> TRUE]

FeatureSets ==
    {DefaultFeatures,
     [DefaultFeatures EXCEPT !.tts_enabled = TRUE],
     [DefaultFeatures EXCEPT !.tts_enabled = TRUE, !.spam_filter = FALSE,
                             !.command_processing = FALSE],
     [DefaultFeatures EXCEPT !.auto_response = FALSE]}

\* the handlers _register_internal_handlers subscribes
InternalHandlers ==
    [event_type \in {"comment", "gift", "follow"} |->
        IF event_type = "comment" THEN <<"handle_comment">>
        ELSE IF event_type = "gift" THEN <<"handle_gift">>
        ELSE <<"handle_follow">>]

\* TikBot(config)
BotInit ==
    /\ bot_stats = [messages_received |-> 0, commands_processed |-> 0,
                    auto_responses_sent |-> 0, gifts_received |-> 0,
                    followers_gained |-> 0, spam_filtered |-> 0]
    /\ commands = DefaultCommands
    /\ auto_responses = DefaultAutoResponses
    /\ spam_keywords = DefaultSpamKeywords
    /\ features \in FeatureSets
    /\ tts_manager = None
    /\ client = None
    /\ is_running = FALSE
    /\ start_time = None
    /\ start_call = "not_called"
    /\ tts_calls = <<>>

\* the EventHandler of a TikBot after construction
BotHubInit ==
    /\ handlers = InternalHandlers
    /\ event_history = <<>>
    /\ emitted = 0
    /\ calls = <<>>

\* s.startswith(prefix)
startswith(s, prefix) ==
    /\ Len(s) >= Len(prefix)
    /\ SubSeq(s, 1, Len(prefix)) = prefix

isspace(c) == c \in {" ", "\t", "\n"}

RECURSIVE lstrip(_)
lstrip(s) == IF s # <<>> /\ isspace(Head(s)) THEN lstrip(Tail(s)) ELSE s

RECURSIVE rstrip(_)
rstrip(s) ==
    IF s # <<>> /\ isspace(s[Len(s)]) THEN rstrip(SubSeq(s, 1, Len(s) - 1)) ELSE s

strip(s) == rstrip(lstrip(s))

\* s.split()[0] of a string that has a word
RECURSIVE Word(_)
Word(s) ==
    IF s = <<>> \/ isspace(Head(s)) THEN <<>> ELSE <<Head(s)>> \o Word(Tail(s))

FirstToken(s) == Word(lstrip(s))

_is_spam(message) ==
    IF ~features.spam_filter THEN FALSE
    ELSE \E i \in 1..Len(spam_keywords) :
            Contains(lower(spam_keywords[i]), lower(message))

\* handle_comment with the return of the spam branch left out
CommentPath_spam_falls_through(comment) ==
    (IF _is_spam(comment) THEN <<"spam">> ELSE <<>>)
    \o (IF startswith(comment, <<"!">>) /\ features.command_processing
        THEN <<"command">>
        ELSE IF features.auto_response THEN <<"auto_response">> ELSE <<>>)
    \o (IF tts_manager # None /\ features.tts_enabled THEN <<"tts">> ELSE <<>>)

\* handle_comment with the elif of the auto-response branch written as if
CommentPath_auto_after_command(comment) ==
    IF _is_spam(comment) THEN <<"spam">>
    ELSE (IF startswith(comment, <<"!">>) /\ features.command_processing
          THEN <<"command">> ELSE <<>>)
         \o (IF features.auto_response THEN <<"auto_response">> ELSE <<>>)
         \o (IF tts_manager # None /\ features.tts_enabled THEN <<"tts">> ELSE <<>>)

\* handle_comment with the TTS step as the last else of the chain
CommentPath_tts_in_else(comment) ==
    IF _is_spam(comment) THEN <<"spam">>
    ELSE IF startswith(comment, <<"!">>) /\ features.command_processing
    THEN <<"command">>
    ELSE IF features.auto_response THEN <<"auto_response">>
    ELSE IF tts_manager # None /\ features.tts_enabled THEN <<"tts">> ELSE <<>>

\* handle_comment with the command branch taken for registered commands only
CommentPath_unknown_falls_to_auto(comment) ==
    IF _is_spam(comment) THEN <<"spam">>
    ELSE (IF /\ startswith(comment, <<"!">>) /\ features.command_processing
             /\ lower(FirstToken(comment)) \in DOMAIN commands
          THEN <<"command">>
          ELSE IF features.auto_response THEN <<"auto_response">> ELSE <<>>)
         \o (IF tts_manager # None /\ features.tts_enabled THEN <<"tts">> ELSE <<>>)

\* the branches handle_comment takes, in the order it takes them
CommentPath(comment) ==
    IF _is_spam(comment) THEN <<"spam">>
    ELSE (IF startswith(comment, <<"!">>) /\ features.command_processing
          THEN <<"command">>
          ELSE IF features.auto_response THEN <<"auto_response">> ELSE <<>>)
         \o (IF tts_manager # None /\ features.tts_enabled THEN <<"tts">> ELSE <<>>)

\* the response of _process_command; an f-string is the record of its
\* literal text and of the values it formats.  messages is the value of
\* stats['messages_received'] when the response is built.
CommandResponse(command, messages) ==
    IF command = TimeCommand /\ start_time # None
    THEN [text |-> "runtime"]
    ELSE IF command = StatsCommand
    THEN [text |-> "stats", messages |-> messages,
          gifts |-> bot_stats.gifts_received,
          followers |-> bot_stats.followers_gained]
    ELSE IF command = CommandsCommand
    THEN [text |-> "commands", cmd_list |-> DOMAIN commands]
    ELSE [text |-> commands[command]]

\* what _process_command emits: nothing for a command that is not registered
_process_command(event, messages) ==
    LET command == lower(FirstToken(event.data.comment))
    IN IF command \in DOMAIN commands
       THEN <<[type |-> "command", cause |-> event.id,
               data |-> [username |-> event.data.username, command |-> command,
                         response |-> CommandResponse(command, messages)]]>>
       ELSE <<>>

\* the keywords of auto_responses contained in the message, by position
MatchingKeywords(comment) ==
    {i \in 1..Len(auto_responses) :
        Contains(lower(auto_responses[i].keyword), lower(comment))}

\* the scan written without its break: the last matching keyword is kept
FirstMatching_keeps_last(matching) ==
    CHOOSE i \in matching : \A j \in matching : i >= j

\* the keyword the for loop stops at: the first of the matching ones
FirstMatching(matching) ==
    CHOOSE i \in matching : \A j \in matching : i <= j

\* what _process_auto_response emits: the first matching keyword, with the
\* response random.choice picked (pick, taken modulo the list's length)
_process_auto_response(event, pick) ==
    LET matching == MatchingKeywords(event.data.comment)
    IN IF matching = {} THEN <<>>
       ELSE LET first == FirstMatching(matching)
                responses == auto_responses[first].responses
            IN <<[type |-> "auto_response", cause |-> event.id,
                  data |-> [username |-> event.data.username,
                            keyword |-> auto_responses[first].keyword,
                            response |-> responses[(pick % Len(responses)) + 1]]]>>

\* hasattr(self.config.tts, 'auto_read_chat') and self.config.tts.auto_read_chat
auto_read_chat ==
    IF "auto_read_chat" \in DOMAIN TTSModelDump
    THEN TTSModelDump["auto_read_chat"] ELSE FALSE

\* the request_tts call of _process_tts, or None when it makes none
_process_tts(event) ==
    LET comment == event.data.comment
    IN IF tts_manager = None THEN None
       ELSE IF startswith(comment, <<"!", "t", "t", "s", " ">>)
       THEN LET text == strip(SubSeq(comment, 6, Len(comment)))
            IN IF text # <<>>
               THEN [text |-> text, username |-> event.data.username, priority |-> 1]
               ELSE None
       ELSE IF auto_read_chat
       THEN IF 5 <= Len(comment) /\ Len(comment) <= 50
            THEN [text |-> comment, username |-> event.data.username, priority |-> 2]
            ELSE None
       ELSE None

\* self._event_history after the emits of events, in order
RECURSIVE HistoryAfterEmits(_, _)
HistoryAfterEmits(h, events) ==
    IF Len(events) = 0 THEN h
    ELSE HistoryAfterEmits(HistoryAfterEmit(h, Head(events)), Tail(events))

\* emit_simple of each of events, in order, by a handler
EmitSimpleAll(events) ==
    LET numbered == [i \in 1..Len(events) |->
                        [type |-> events[i].type, id |-> emitted + i,
                         cause |-> events[i].cause, data |-> events[i].data]]
    IN /\ \A i \in 1..Len(events) : EmitTasks(numbered[i]) = <<>>
       /\ event_history' = HistoryAfterEmits(event_history, numbered)
       /\ emitted' = emitted + Len(events)

\* random.choice(responses) picks by position
Picks == {0, 1}

\* The handler task i of the emit call c runs handle_comment(event).
handle_comment(c, i, pick) ==
    LET event == calls[c].event
        comment == event.data.comment
        path == CommentPath(comment)
        Takes(branch) == \E n \in 1..Len(path) : path[n] = branch
        messages == bot_stats.messages_received + 1
        spam == IF Takes("spam")
                THEN <<[type |-> "spam_detected", cause |-> event.id,
                        data |-> [username |-> event.data.username,
                                  comment |-> comment]]>>
                ELSE <<>>
        command == IF Takes("command") THEN _process_command(event, messages)
                   ELSE <<>>
        auto == IF Takes("auto_response") THEN _process_auto_response(event, pick)
                ELSE <<>>
        submission == IF Takes("tts") THEN _process_tts(event) ELSE None
    IN
    /\ bot_stats' = [bot_stats EXCEPT
                        !.messages_received = messages,
                        !.spam_filtered = @ + Len(spam),
                        !.commands_processed = @ + Len(command),
                        !.auto_responses_sent = @ + Len(auto)]
    /\ EmitSimpleAll(spam \o command \o auto)
    /\ IF submission = None
       THEN UNCHANGED <<ttsVars, tts_calls>>
       ELSE /\ request_tts(submission.text, submission.username, submission.priority)
            /\ tts_calls' = Append(tts_calls,
                                   [text |-> submission.text,
                                    username |-> submission.username,
                                    priority |-> submission.priority,
                                    cause |-> event.id])
    /\ calls' = [calls EXCEPT ![c].tasks[i].pc = "returned"]
    /\ UNCHANGED <<handlers, commands, auto_responses, spam_keywords, features,
                   tts_manager, client, is_running, start_time, start_call>>

handle_gift(c, i) ==
    /\ bot_stats' = [bot_stats EXCEPT !.gifts_received = @ + 1]
    /\ calls' = [calls EXCEPT ![c].tasks[i].pc = "returned"]
    /\ UNCHANGED <<handlers, event_history, emitted, ttsVars, commands,
                   auto_responses, spam_keywords, features, tts_manager, client,
                   is_running, start_time, start_call, tts_calls>>

handle_follow(c, i) ==
    /\ bot_stats' = [bot_stats EXCEPT !.followers_gained = @ + 1]
    /\ calls' = [calls EXCEPT ![c].tasks[i].pc = "returned"]
    /\ UNCHANGED <<handlers, event_history, emitted, ttsVars, commands,
                   auto_responses, spam_keywords, features, tts_manager, client,
                   is_running, start_time, start_call, tts_calls>>

add_command(command, response) ==
    /\ commands' = DictSet(commands, command, response)
    /\ UNCHANGED <<hubVars, ttsVars, bot_stats, auto_responses, spam_keywords,
                   features, tts_manager, client, is_running, start_time,
                   start_call, tts_calls>>

remove_command(command) ==
    /\ commands' = [k \in (DOMAIN commands) \ {command} |-> commands[k]]
    /\ UNCHANGED <<hubVars, ttsVars, bot_stats, auto_responses, spam_keywords,
                   features, tts_manager, client, is_running, start_time,
                   start_call, tts_calls>>

\* TikBot.start() up to await self.client.connect(): the TTSManager is
\* constructed and initialized when the feature is on (initialize returns
\* at its first test, the dumped TTSConfig having no key enabled), the
\* client is made and BOT_START is emitted.  run_bot and run_with_api call
\* start() once, on the TikBot they have just constructed.
start ==
    LET new == TTSManager(TTSModelDump)
    IN
    /\ ~is_running
    /\ start_call = "not_called"
    /\ IF features.tts_enabled
       THEN /\ tts_manager' = [manager |-> "TTSManager"]
            /\ tts_config' = new.tts_config
            /\ engine' = new.engine
            /\ enabled' = new.enabled
            /\ tts_queue' = new.tts_queue
            /\ is_processing' = new.is_processing
            /\ max_length' = new.max_length
            /\ min_length' = new.min_length
            /\ blocked_words' = new.blocked_words
            /\ vip_users' = new.vip_users
            /\ tts_stats' = new.tts_stats
            /\ is_speaking' = FALSE
            /\ consumers' = <<>>
            /\ tts_stop' = "idle"
            /\ tts_result' = None
       ELSE UNCHANGED <<tts_manager, ttsVars>>
    /\ client' = [client |-> "TikTokLiveClient"]
    /\ EmitSimpleAll(<<[type |-> "bot_start", cause |-> 0, data |-> EmptyDict]>>)
    /\ start_call' = "connecting"
    /\ UNCHANGED <<handlers, calls, bot_stats, commands, auto_responses,
                   spam_keywords, features, is_running, start_time, tts_calls>>

\* client.connect() returns
start_connected ==
    /\ start_call = "connecting"
    /\ is_running' = TRUE
    /\ start_time' = [time |-> "now"]
    /\ start_call' = "returned"
    /\ UNCHANGED <<hubVars, ttsVars, bot_stats, commands, auto_responses,
                   spam_keywords, features, tts_manager, client, tts_calls>>

\* client.connect() raises: stop() is awaited, which returns at its first
\* test because is_running is still false, and the exception is raised on
start_connect_raises ==
    /\ start_call = "connecting"
    /\ start_call' = "raised"
    /\ UNCHANGED <<hubVars, ttsVars, bot_stats, commands, auto_responses,
                   spam_keywords, features, tts_manager, client, is_running,
                   start_time, tts_calls>>

\* the platform client delivers events once start() has begun to connect
Connected == start_call = "connecting" \/ is_running

PublicEvents ==
    bot_stats.messages_received + bot_stats.gifts_received
        + bot_stats.followers_gained

\* no emit of the client's callbacks is in progress
NoEmitInProgress == \A c \in 1..Len(calls) : calls[c].state # "gathering"

\* on_comment: the CommentEvent is emitted
OnComment ==
    /\ Connected
    /\ NoEmitInProgress
    /\ PublicEvents < MaxPublicEvents
    /\ \E username \in BotUsers : \E comment \in Comments :
          emit([type |-> "comment", id |-> emitted + 1,
                data |-> [username |-> username, comment |-> comment]], <<>>)
    /\ UNCHANGED <<ttsVars, botVars>>

\* on_gift
OnGift ==
    /\ Connected
    /\ NoEmitInProgress
    /\ PublicEvents < MaxPublicEvents
    /\ \E username \in BotUsers :
          emit([type |-> "gift", id |-> emitted + 1,
                data |-> [username |-> username]], <<>>)
    /\ UNCHANGED <<ttsVars, botVars>>

\* on_follow
OnFollow ==
    /\ Connected
    /\ NoEmitInProgress
    /\ PublicEvents < MaxPublicEvents
    /\ \E username \in BotUsers :
          emit([type |-> "follow", id |-> emitted + 1,
                data |-> [username |-> username]], <<>>)
    /\ UNCHANGED <<ttsVars, botVars>>

HandleComment ==
    \E c \in 1..Len(calls) : \E i \in 1..Len(calls[c].tasks) : \E pick \in Picks :
        /\ calls[c].tasks[i].pc = "pending"
        /\ calls[c].tasks[i].handler = "handle_comment"
        /\ handle_comment(c, i, pick)

HandleGift ==
    \E c \in 1..Len(calls) : \E i \in 1..Len(calls[c].tasks) :
        /\ calls[c].tasks[i].pc = "pending"
        /\ calls[c].tasks[i].handler = "handle_gift"
        /\ handle_gift(c, i)

HandleFollow ==
    \E c \in 1..Len(calls) : \E i \in 1..Len(calls[c].tasks) :
        /\ calls[c].tasks[i].pc = "pending"
        /\ calls[c].tasks[i].handler = "handle_follow"
        /\ handle_follow(c, i)

BotEmitReturns == ReturnFromEmit /\ UNCHANGED <<ttsVars, botVars>>

\* "!HELP", a command written in capitals
CapitalsCommand == <<"!", "H", "E", "L", "P">>

\* the commands the inbound command surface adds and removes, with the
\* response each is added with
AddedCommands ==
    [command \in {StatsCommand, CapitalsCommand} |->
        IF command = StatsCommand THEN "stats_text" ELSE "capitals_text"]

AddCommand ==
    \E command \in DOMAIN AddedCommands :
        add_command(command, AddedCommands[command])

RemoveCommand ==
    \E command \in DOMAIN AddedCommands : remove_command(command)

Start == start

StartConnected == start_connected

StartConnectRaises == start_connect_raises

BotNext ==
    \/ Start /\ UNCHANGED nonBotVars
    \/ StartConnected /\ UNCHANGED nonBotVars
    \/ StartConnectRaises /\ UNCHANGED nonBotVars
    \/ OnComment /\ UNCHANGED nonBotVars
    \/ OnGift /\ UNCHANGED nonBotVars
    \/ OnFollow /\ UNCHANGED nonBotVars
    \/ HandleComment /\ UNCHANGED nonBotVars
    \/ HandleGift /\ UNCHANGED nonBotVars
    \/ HandleFollow /\ UNCHANGED nonBotVars
    \/ BotEmitReturns /\ UNCHANGED nonBotVars
    \/ AddCommand /\ UNCHANGED nonBotVars
    \/ RemoveCommand /\ UNCHANGED nonBotVars

(***************************************************************************)
(* MusicManager: request_song                                              *)
(*                                                                         *)
(* The lookups at Spotify and YouTube are the environment: a call of       *)
(* request_song comes with what its lookup found.  From the return of the  *)
(* lookup to the return of request_song nothing is awaited that suspends.  *)
(***************************************************************************)
\* the members of the enum EventType
EventTypeMembers ==
    {"CONNECT", "DISCONNECT", "COMMENT", "GIFT", "FOLLOW", "SHARE", "LIKE",
     "JOIN", "BOT_START", "BOT_STOP", "COMMAND", "AUTO_RESPONSE",
     "SPAM_DETECTED", "TTS_START", "TTS_END", "OVERLAY_UPDATE"}

MusicServices == {"spotify", "youtube"}

\* What the lookup of a URL found: nothing, or the MusicRequest made of the
\* track and whether the track is marked explicit.
Lookups ==
    {[found |-> FALSE]}
    \cup {[found |-> TRUE, explicit |-> explicit,
           request |-> [request EXCEPT !.platform = service]] :
            explicit \in BOOLEAN, service \in MusicServices,
            request \in {r \in RequestInputs : r.platform = "spotify"}}

\* MusicManager(config)
MMInit ==
    /\ mm_enabled \in BOOLEAN
    /\ allow_explicit = FALSE
    /\ mm_event_handler = None
    /\ mm_stats = [total_requests |-> 0, spotify_requests |-> 0,
                   youtube_requests |-> 0]
    /\ mm_result = None

\* register_event_handlers(event_handler): on_music_command subscribes to
\* COMMAND events
register_event_handlers ==
    IF ~mm_enabled
    THEN UNCHANGED <<mmVars, hubVars>>
    ELSE /\ mm_event_handler' = [hub |-> "EventHandler"]
         /\ add_handler("command", "on_music_command")
         /\ UNCHANGED <<mm_enabled, allow_explicit, mm_stats, mm_result>>

\* the result request_song returns from its except clause
RequestFailed == [success |-> FALSE, error |-> "request_failed"]

\* _handle_url_request after the lookup: the explicit filter (Spotify only),
\* add_request, result["platform"], and the emit of MUSIC_REQUEST_ADDED,
\* whose name is looked up in EventType.  An exception (KeyError of
\* result["success"], AttributeError of the enum) ends in request_song's
\* except clause.
_handle_url_request(lookup) ==
    LET counted == [mm_stats EXCEPT !.total_requests = @ + 1]
    IN
    IF ~lookup.found
    THEN /\ mm_result' = [success |-> FALSE, error |-> "not_found"]
         /\ mm_stats' = counted
         /\ UNCHANGED <<musicVars, hubVars>>
    ELSE IF lookup.request.platform = "spotify" /\ lookup.explicit /\ ~allow_explicit
    THEN /\ mm_result' = [success |-> FALSE, error |-> "explicit"]
         /\ mm_stats' = counted
         /\ UNCHANGED <<musicVars, hubVars>>
    ELSE
    /\ add_request(lookup.request)
    /\ LET result == DictSet(music_result', "platform", lookup.request.platform)
       IN IF "success" \notin DOMAIN result
          THEN /\ mm_result' = RequestFailed
               /\ mm_stats' = counted
               /\ UNCHANGED hubVars
          ELSE IF result["success"] /\ mm_event_handler # None
          THEN IF "MUSIC_REQUEST_ADDED" \in EventTypeMembers
               THEN /\ emit([type |-> "music_request_added", id |-> emitted + 1,
                             data |-> lookup.request], <<>>)
                    /\ mm_result' = result
                    /\ mm_stats' = counted
               ELSE /\ mm_result' = RequestFailed
                    /\ mm_stats' = counted
               /\ UNCHANGED hubVars
          ELSE /\ mm_result' = result
               /\ mm_stats' =
                     IF ~result["success"] THEN counted
                     ELSE IF result["platform"] = "spotify"
                     THEN [counted EXCEPT !.spotify_requests = @ + 1]
                     ELSE [counted EXCEPT !.youtube_requests = @ + 1]
               /\ UNCHANGED hubVars

\* request_song(query, requester, nickname) for a query that is a URL
request_song(lookup) ==
    IF ~mm_enabled
    THEN /\ mm_result' = [success |-> FALSE, error |-> "disabled"]
         /\ UNCHANGED <<musicVars, hubVars, mm_enabled, allow_explicit,
                        mm_event_handler, mm_stats>>
    ELSE /\ _handle_url_request(lookup)
         /\ UNCHANGED <<mm_enabled, allow_explicit, mm_event_handler>>

RegisterEventHandlers ==
    /\ mm_event_handler = None
    /\ register_event_handlers
    /\ UNCHANGED musicVars

\* request_song counts its calls in stats["total_requests"]
RequestSong ==
    /\ mm_stats.total_requests < MaxSongRequests
    /\ \E lookup \in Lookups : request_song(lookup)

\* self.queue is drained: get_next_request and skip_current on the queue the
\* manager owns
QueueNextRequest ==
    /\ GetNextRequest
    /\ UNCHANGED <<hubVars, mmVars>>

QueueSkipCurrent ==
    /\ SkipCurrent
    /\ UNCHANGED <<hubVars, mmVars>>

MusicManagerNext ==
    \/ RegisterEventHandlers /\ UNCHANGED nonMMVars
    \/ RequestSong /\ UNCHANGED nonMMVars
    \/ QueueNextRequest /\ UNCHANGED nonMMVars
    \/ QueueSkipCurrent /\ UNCHANGED nonMMVars

(***************************************************************************)
(* TikBot: disconnect, reconnect and stop                                  *)
(*                                                                         *)
(* Every DisconnectEvent the client delivers starts one on_disconnect      *)
(* task.  Time is the clock of the event loop, in seconds; it advances     *)
(* between steps.  connects is the log of the client.connect() calls the   *)
(* on_disconnect tasks made.                                               *)
(***************************************************************************)
DefaultReconnectDelay == 5

\* TikTokConfig.reconnect_delay: the default and a shorter one
ReconnectDelays == {2, DefaultReconnectDelay}

\* TikBot(config): the connection settings and no task
ConnInit ==
    /\ auto_reconnect \in BOOLEAN
    /\ reconnect_delay \in ReconnectDelays
    /\ now = 0
    /\ disconnects = <<>>
    /\ connects = <<>>
    /\ stop_call = "not_called"

\* asyncio.sleep(delay) begun at time since returns at once
SleepOver_at_once(since, delay) == now >= since

\* asyncio.sleep(delay) begun at time since has returned
SleepOver(since, delay) == now >= since + delay

\* on_disconnect reconnects whatever the running flag says
ShouldReconnect_unchecked == TRUE

\* the test of on_disconnect after its sleep
ShouldReconnect == is_running

\* on_disconnect(event) up to its await: DISCONNECT is emitted (it has no
\* subscriber, so emit returns without suspending), then the handler sleeps
\* if auto_reconnect is on and the bot is running.  cause tells whether
\* stop() was disconnecting the client when the event came, running what
\* is_running was.
on_disconnect ==
    /\ EmitSimpleAll(<<[type |-> "disconnect", cause |-> 0, data |-> EmptyDict]>>)
    /\ disconnects' =
          Append(disconnects,
                 [cause |-> IF stop_call = "disconnecting" THEN "stop" ELSE "network",
                  event |-> emitted + 1,
                  at |-> now,
                  running |-> is_running,
                  pc |-> IF auto_reconnect /\ is_running THEN "sleeping" ELSE "done"])
    /\ UNCHANGED <<handlers, calls, ttsVars, botVars, auto_reconnect,
                   reconnect_delay, now, connects, stop_call>>

\* on_disconnect after asyncio.sleep(reconnect_delay): client.connect() is
\* called if the bot is still running
on_disconnect_wakes(k) ==
    /\ disconnects[k].pc = "sleeping"
    /\ SleepOver(disconnects[k].at, reconnect_delay)
    /\ IF ShouldReconnect
       THEN /\ connects' = Append(connects, [task |-> k, time |-> now,
                                             running |-> is_running,
                                             emitted |-> emitted])
            /\ disconnects' = [disconnects EXCEPT ![k].pc = "connecting"]
       ELSE /\ connects' = connects
            /\ disconnects' = [disconnects EXCEPT ![k].pc = "done"]
    /\ UNCHANGED <<hubVars, ttsVars, botVars, auto_reconnect, reconnect_delay,
                   now, stop_call>>

\* client.connect() of on_disconnect returns or raises; the exception is
\* logged and the handler ends
on_disconnect_connected(k, raised) ==
    /\ disconnects[k].pc = "connecting"
    /\ disconnects' = [disconnects EXCEPT ![k].pc = "done"]
    /\ UNCHANGED <<hubVars, ttsVars, botVars, auto_reconnect, reconnect_delay,
                   now, connects, stop_call>>

BotStopEvent == [type |-> "bot_stop", cause |-> 0, data |-> EmptyDict]

\* stop() written without clearing the running flag
stop_keeps_running ==
    IF ~is_running
    THEN UNCHANGED <<hubVars, ttsVars, botVars, connVars>>
    ELSE /\ is_running' = is_running
         /\ IF client # None
            THEN /\ stop_call' = "disconnecting"
                 /\ UNCHANGED <<hubVars, ttsVars>>
            ELSE /\ IF tts_manager # None THEN tts_stop_begins
                    ELSE UNCHANGED ttsVars
                 /\ IF tts_stop' = "sleeping"
                    THEN stop_call' = "tts_stopping" /\ UNCHANGED hubVars
                    ELSE /\ stop_call' = "returned"
                         /\ EmitSimpleAll(<<BotStopEvent>>)
                         /\ UNCHANGED <<handlers, calls>>
         /\ UNCHANGED <<bot_stats, commands, auto_responses, spam_keywords,
                        features, tts_manager, client, start_time, start_call,
                        tts_calls, auto_reconnect, reconnect_delay, now,
                        disconnects, connects>>

\* stop() up to await self.client.disconnect(); it returns at once when the
\* bot is not running
stop ==
    IF ~is_running
    THEN UNCHANGED <<hubVars, ttsVars, botVars, connVars>>
    ELSE /\ is_running' = FALSE
         /\ IF client # None
            THEN /\ stop_call' = "disconnecting"
                 /\ UNCHANGED <<hubVars, ttsVars>>
            ELSE /\ IF tts_manager # None THEN tts_stop_begins
                    ELSE UNCHANGED ttsVars
                 /\ IF tts_stop' = "sleeping"
                    THEN stop_call' = "tts_stopping" /\ UNCHANGED hubVars
                    ELSE /\ stop_call' = "returned"
                         /\ EmitSimpleAll(<<BotStopEvent>>)
                         /\ UNCHANGED <<handlers, calls>>
         /\ UNCHANGED <<bot_stats, commands, auto_responses, spam_keywords,
                        features, tts_manager, client, start_time, start_call,
                        tts_calls, auto_reconnect, reconnect_delay, now,
                        disconnects, connects>>

\* stop() after client.disconnect() returned or raised: the TTSManager is
\* stopped and, when that has returned, BOT_STOP is emitted
stop_continues ==
    /\ stop_call \in {"disconnecting", "tts_stopping"}
    /\ IF stop_call = "tts_stopping" THEN tts_stop_returns
       ELSE IF tts_manager # None THEN tts_stop_begins
       ELSE UNCHANGED ttsVars
    /\ IF tts_stop' = "sleeping"
       THEN stop_call' = "tts_stopping" /\ UNCHANGED hubVars
       ELSE /\ stop_call' = "returned"
            /\ EmitSimpleAll(<<BotStopEvent>>)
            /\ UNCHANGED <<handlers, calls>>
    /\ UNCHANGED <<botVars, auto_reconnect, reconnect_delay, now, disconnects,
                   connects>>

\* the client delivers a DisconnectEvent: the connection was lost, or stop()
\* is disconnecting the client
OnDisconnect ==
    /\ client # None
    /\ Connected \/ stop_call = "disconnecting"
    /\ Len(disconnects) < MaxDisconnects
    /\ on_disconnect

ReconnectWakes == \E k \in 1..Len(disconnects) : on_disconnect_wakes(k)

ReconnectReturns ==
    \E k \in 1..Len(disconnects) : \E raised \in BOOLEAN :
        on_disconnect_connected(k, raised)

Stop == stop

StopContinues == stop_continues

\* a second passes
Tick ==
    /\ now < MaxTime
    /\ now' = now + 1
    /\ UNCHANGED <<hubVars, ttsVars, botVars, auto_reconnect, reconnect_delay,
                   disconnects, connects, stop_call>>

ReconnectNext ==
    \/ Start /\ UNCHANGED nonBotVars
    \/ StartConnected /\ UNCHANGED nonBotVars
    \/ StartConnectRaises /\ UNCHANGED nonBotVars
    \/ OnDisconnect /\ UNCHANGED nonConnVars
    \/ ReconnectWakes /\ UNCHANGED nonConnVars
    \/ ReconnectReturns /\ UNCHANGED nonConnVars
    \/ Stop /\ UNCHANGED nonConnVars
    \/ StopContinues /\ UNCHANGED nonConnVars
    \/ Tick /\ UNCHANGED nonConnVars

(***************************************************************************)
(* SoundAlerts: trigger_alert and the cooldown                             *)
(*                                                                         *)
(* A trigger_alert call runs to await self._play_alert(...), where the     *)
(* sound plays in an executor thread, and ends when the playback is over.  *)
(* The handlers of different events call it concurrently.  time.time() is  *)
(* the clock now.                                                          *)
(***************************************************************************)
\* the alerts _load_default_alerts defines for FOLLOW and COMMENT; they
\* have no conditions
DefaultAlerts ==
    [alert_type \in {"follow", "comment"} |->
        IF alert_type = "follow"
        THEN <<[name |-> "new_follower", cooldown |-> 2, enabled |-> TRUE]>>
        ELSE <<[name |-> "new_comment", cooldown |-> 5, enabled |-> TRUE]>>]

\* the event types trigger_alert is called with
AlertEventTypes == {"follow", "comment", "bot_start"}

\* SoundAlerts(config) without custom alerts
AlertsInit ==
    /\ alerts = DefaultAlerts
    /\ cooldowns = EmptyDict
    /\ alert_stats = [total_alerts |-> 0, alerts_played |-> 0,
                      alerts_skipped |-> 0, cooldown_blocks |-> 0]
    /\ player_available \in BOOLEAN
    /\ triggers = <<>>
    /\ firings = <<>>

\* _map_event_to_alert: None for an event type without alert type
_map_event_to_alert(event_type) ==
    IF event_type \in {"follow", "gift", "comment", "like", "share", "join",
                       "command"}
    THEN [alert_type |-> event_type]
    ELSE None

\* _find_suitable_alert: the first enabled alert whose file exists
_find_suitable_alert(list, exists) ==
    LET suitable == {i \in 1..Len(list) : list[i].enabled /\ exists}
    IN IF suitable = {} THEN None
       ELSE list[CHOOSE i \in suitable : \A j \in suitable : i <= j]

\* last_played is 0 for an alert that never played and time.time() is
\* large: such an alert is not in cooldown
_is_in_cooldown(alert) ==
    /\ alert.cooldown > 0
    /\ alert.name \in DOMAIN cooldowns
    /\ (now - cooldowns[alert.name]) < alert.cooldown

\* trigger_alert(event_type, event_data) up to await self._play_alert
trigger_alert(event_type, exists) ==
    LET alert_type == _map_event_to_alert(event_type)
        list == IF alert_type = None THEN <<>>
                ELSE DictGet(alerts, alert_type.alert_type, <<>>)
        suitable_alert == _find_suitable_alert(list, exists)
        Returns(result) ==
            triggers' = Append(triggers, [event_type |-> event_type,
                                          pc |-> "done", result |-> result])
    IN
    /\ IF ~player_available \/ alert_type = None \/ list = <<>>
       THEN Returns(FALSE) /\ UNCHANGED alert_stats
       ELSE IF suitable_alert = None
       THEN /\ Returns(FALSE)
            /\ alert_stats' = [alert_stats EXCEPT !.alerts_skipped = @ + 1]
       ELSE IF _is_in_cooldown(suitable_alert)
       THEN /\ Returns(FALSE)
            /\ alert_stats' = [alert_stats EXCEPT !.cooldown_blocks = @ + 1]
       ELSE /\ triggers' = Append(triggers, [event_type |-> event_type,
                                             pc |-> "playing",
                                             alert |-> suitable_alert,
                                             began |-> now])
            /\ UNCHANGED alert_stats
    /\ UNCHANGED <<alerts, cooldowns, player_available, firings>>

\* the playback of call k is over: _play_alert returns success, and the rest
\* of trigger_alert runs
trigger_alert_played(k, success) ==
    LET alert == triggers[k].alert
    IN
    /\ triggers[k].pc = "playing"
    /\ triggers' = [triggers EXCEPT ![k] = [event_type |-> @.event_type,
                                            pc |-> "done", result |-> success]]
    /\ IF success
       THEN /\ alert_stats' = [alert_stats EXCEPT !.alerts_played = @ + 1,
                                                  !.total_alerts = @ + 1]
            /\ cooldowns' = IF alert.cooldown > 0
                            THEN DictSet(cooldowns, alert.name, now)
                            ELSE cooldowns
            /\ firings' = Append(firings, [name |-> alert.name,
                                           cooldown |-> alert.cooldown,
                                           began |-> triggers[k].began,
                                           at |-> now])
       ELSE /\ alert_stats' = [alert_stats EXCEPT !.alerts_skipped = @ + 1,
                                                  !.total_alerts = @ + 1]
            /\ UNCHANGED <<cooldowns, firings>>
    /\ UNCHANGED <<alerts, player_available>>

TriggerAlert ==
    /\ Len(triggers) < MaxTriggers
    /\ \E event_type \in AlertEventTypes : \E exists \in BOOLEAN :
          trigger_alert(event_type, exists)

AlertPlayed ==
    \E k \in 1..Len(triggers) : \E success \in BOOLEAN :
        trigger_alert_played(k, success)

AlertsNext ==
    \/ TriggerAlert /\ UNCHANGED nonAlertVars
    \/ AlertPlayed /\ UNCHANGED nonAlertVars
    \/ Tick /\ UNCHANGED nonConnVars

(***************************************************************************)
(* The two request queues and their drains                                 *)
(*                                                                         *)
(* The MusicQueue and the TTS queue share no state.  A behaviour drives    *)
(* one of them: submissions, removals and drains of the MusicQueue, or     *)
(* submissions and the drain loop of the TTSManager.                       *)
(***************************************************************************)
\* no MusicQueue operation has been called
MusicUntouched ==
    /\ queue = <<>>
    /\ history = <<>>
    /\ current_request = None
    /\ music_result = None

\* no TTSManager operation has been called
TTSUntouched == TTSConstructed(tts_config)

\* add_request of a request that passes the duration, platform and keyword
\* tests
SubmitSong ==
    /\ music_stats.total_requests < MaxRequests
    /\ \E request \in RequestInputs :
          /\ request.duration <= DefaultMaxDuration
          /\ request.platform = "spotify"
          /\ request.title \in {<<"a">>, <<"c">>}
          /\ add_request(request)

\* initialize() finds an engine and starts the drain loop
StartDrainLoop ==
    /\ Len(consumers) < MaxConsumers
    /\ initialize("engine")

\* request_tts of one user, with either priority
SubmitSpeech ==
    /\ tts_stats.total_requests < MaxSpeech
    /\ \E priority \in TTSPriorities :
          request_tts(<<"h", "i">>, "alice", priority)

QueuesNext ==
    \/ TTSUntouched /\ SubmitSong /\ UNCHANGED nonMusicVars
    \/ TTSUntouched /\ GetNextRequest /\ UNCHANGED nonMusicVars
    \/ TTSUntouched /\ SkipCurrent /\ UNCHANGED nonMusicVars
    \/ TTSUntouched /\ RemoveRequest /\ UNCHANGED nonMusicVars
    \/ MusicUntouched /\ StartDrainLoop /\ UNCHANGED nonTTSVars
    \/ MusicUntouched /\ SubmitSpeech /\ UNCHANGED nonTTSVars
    \/ MusicUntouched /\ ConsumerStep /\ UNCHANGED nonTTSVars
    \/ MusicUntouched /\ ClearTTSQueue /\ UNCHANGED nonTTSVars

(***************************************************************************)
(* Subscribers of the bot's events                                         *)
(*                                                                         *)
(* Other components subscribe to COMMAND, AUTO_RESPONSE and SPAM_DETECTED  *)
(* with add_handler.  handle_comment then suspends in its await of         *)
(* emit_simple until the handlers of the secondary event have finished:    *)
(* its task is "awaiting" in between.  The callbacks of the platform       *)
(* client run as tasks of their own, so a comment can be emitted while     *)
(* the emit of another one is in progress.                                 *)
(***************************************************************************)
\* the registry after the subscribers were added to a TikBot's EventHandler
SubscribedHandlers ==
    [event_type \in DOMAIN InternalHandlers
                      \cup {"command", "auto_response", "spam_detected"} |->
        IF event_type \in DOMAIN InternalHandlers THEN InternalHandlers[event_type]
        ELSE IF event_type = "command" THEN <<"async_ok", "sync_raises">>
        ELSE IF event_type = "spam_detected" THEN <<"async_raises">>
        ELSE <<"sync_ok">>]

SubscribedHubInit ==
    /\ handlers = SubscribedHandlers
    /\ event_history = <<>>
    /\ emitted = 0
    /\ calls = <<>>

\* "!HELP bye" (a command) and "!help AD" (spam)
SubscribedComments ==
    {<<"!", "H", "E", "L", "P", " ", "b", "y", "e">>,
     <<"!", "h", "e", "l", "p", " ", "A", "D">>}

\* the emit calls whose event was caused by the event with this id
CallsCausedBy(id) == {d \in 1..Len(calls) : calls[d].event.cause = id}

\* handle_comment written without the count of the received message
handle_comment_awaits_uncounted(c, i, pick) ==
    LET event == calls[c].event
        comment == event.data.comment
        path == CommentPath(comment)
        Takes(branch) == \E n \in 1..Len(path) : path[n] = branch
        messages == bot_stats.messages_received + 1
        spam == IF Takes("spam")
                THEN <<[type |-> "spam_detected", cause |-> event.id,
                        data |-> [username |-> event.data.username,
                                  comment |-> comment]]>>
                ELSE <<>>
        command == IF Takes("command") THEN _process_command(event, messages)
                   ELSE <<>>
        auto == IF Takes("auto_response") THEN _process_auto_response(event, pick)
                ELSE <<>>
        events == spam \o command \o auto
        secondary == [type |-> events[1].type, id |-> emitted + 1,
                      cause |-> events[1].cause, data |-> events[1].data]
    IN
    /\ Len(events) = 1
    /\ EmitTasks(secondary) # <<>>
    /\ bot_stats' = [bot_stats EXCEPT
                        !.spam_filtered = @ + Len(spam),
                        !.commands_processed = @ + Len(command),
                        !.auto_responses_sent = @ + Len(auto)]
    /\ emit(secondary, [calls EXCEPT ![c].tasks[i].pc = "awaiting"])
    /\ UNCHANGED <<ttsVars, commands, auto_responses, spam_keywords, features,
                   tts_manager, client, is_running, start_time, start_call,
                   tts_calls>>

\* handle_comment(event) up to the await of the emit_simple of its secondary
\* event, whose handlers are yet to run
handle_comment_awaits(c, i, pick) ==
    LET event == calls[c].event
        comment == event.data.comment
        path == CommentPath(comment)
        Takes(branch) == \E n \in 1..Len(path) : path[n] = branch
        messages == bot_stats.messages_received + 1
        spam == IF Takes("spam")
                THEN <<[type |-> "spam_detected", cause |-> event.id,
                        data |-> [username |-> event.data.username,
                                  comment |-> comment]]>>
                ELSE <<>>
        command == IF Takes("command") THEN _process_command(event, messages)
                   ELSE <<>>
        auto == IF Takes("auto_response") THEN _process_auto_response(event, pick)
                ELSE <<>>
        events == spam \o command \o auto
        secondary == [type |-> events[1].type, id |-> emitted + 1,
                      cause |-> events[1].cause, data |-> events[1].data]
    IN
    /\ Len(events) = 1
    /\ EmitTasks(secondary) # <<>>
    /\ bot_stats' = [bot_stats EXCEPT
                        !.messages_received = messages,
                        !.spam_filtered = @ + Len(spam),
                        !.commands_processed = @ + Len(command),
                        !.auto_responses_sent = @ + Len(auto)]
    /\ emit(secondary, [calls EXCEPT ![c].tasks[i].pc = "awaiting"])
    /\ UNCHANGED <<ttsVars, commands, auto_responses, spam_keywords, features,
                   tts_manager, client, is_running, start_time, start_call,
                   tts_calls>>

\* handle_comment(event) from the return of that emit_simple to its end: it
\* returns after SPAM_DETECTED, and goes on to the TTS step otherwise
handle_comment_resumes(c, i) ==
    LET event == calls[c].event
        path == CommentPath(event.data.comment)
        Takes(branch) == \E n \in 1..Len(path) : path[n] = branch
        submission == IF Takes("tts") THEN _process_tts(event) ELSE None
    IN
    /\ calls[c].tasks[i].pc = "awaiting"
    /\ \A d \in CallsCausedBy(event.id) : calls[d].state # "gathering"
    /\ IF submission = None
       THEN UNCHANGED <<ttsVars, tts_calls>>
       ELSE /\ request_tts(submission.text, submission.username, submission.priority)
            /\ tts_calls' = Append(tts_calls,
                                   [text |-> submission.text,
                                    username |-> submission.username,
                                    priority |-> submission.priority,
                                    cause |-> event.id])
    /\ calls' = [calls EXCEPT ![c].tasks[i].pc = "returned"]
    /\ UNCHANGED <<handlers, event_history, emitted, bot_stats, commands,
                   auto_responses, spam_keywords, features, tts_manager, client,
                   is_running, start_time, start_call>>

\* the comments whose emit has been called
CommentCalls == {c \in 1..Len(calls) : calls[c].event.type = "comment"}

\* on_comment, called while emits of earlier comments may be in progress
OnCommentConcurrently ==
    /\ Connected
    /\ Cardinality(CommentCalls) < MaxComments
    /\ \E username \in BotUsers : \E comment \in SubscribedComments :
          emit([type |-> "comment", id |-> emitted + 1, cause |-> 0,
                data |-> [username |-> username, comment |-> comment]], calls)
    /\ UNCHANGED <<ttsVars, botVars>>

HandleCommentAwaits ==
    \E c \in 1..Len(calls) : \E i \in 1..Len(calls[c].tasks) : \E pick \in Picks :
        /\ calls[c].tasks[i].pc = "pending"
        /\ calls[c].tasks[i].handler = "handle_comment"
        /\ handle_comment_awaits(c, i, pick)

HandleCommentResumes ==
    \E c \in 1..Len(calls) : \E i \in 1..Len(calls[c].tasks) :
        /\ calls[c].tasks[i].handler = "handle_comment"
        /\ handle_comment_resumes(c, i)

\* a subscriber's handler runs
RunSubscriber ==
    /\ \E c \in 1..Len(calls) : \E i \in 1..Len(calls[c].tasks) :
          /\ calls[c].tasks[i].handler \in GenericHandlers
          /\ HandlerRun(c, i)
    /\ UNCHANGED <<ttsVars, botVars>>

\* the comments that are counted: a command, a spam comment and a comment
\* with an auto-response keyword
CountedComments ==
    SubscribedComments \cup {<<"b", "y", "e", " ", "h", "i">>}

\* on_comment, called while emits of earlier comments may be in progress
OnCountedComment ==
    /\ Connected
    /\ Cardinality(CommentCalls) < MaxComments
    /\ \E username \in BotUsers : \E comment \in CountedComments :
          emit([type |-> "comment", id |-> emitted + 1, cause |-> 0,
                data |-> [username |-> username, comment |-> comment]], calls)
    /\ UNCHANGED <<ttsVars, botVars>>

CountersNext ==
    \/ Start /\ UNCHANGED nonBotVars
    \/ OnCountedComment /\ UNCHANGED nonBotVars
    \/ HandleCommentAwaits /\ UNCHANGED nonBotVars
    \/ HandleCommentResumes /\ UNCHANGED nonBotVars
    \/ RunSubscriber /\ UNCHANGED nonBotVars
    \/ BotEmitReturns /\ UNCHANGED nonBotVars

SubscribersNext ==
    \/ Start /\ UNCHANGED nonBotVars
    \/ OnCommentConcurrently /\ UNCHANGED nonBotVars
    \/ HandleCommentAwaits /\ UNCHANGED nonBotVars
    \/ HandleCommentResumes /\ UNCHANGED nonBotVars
    \/ RunSubscriber /\ UNCHANGED nonBotVars
    \/ BotEmitReturns /\ UNCHANGED nonBotVars

(***************************************************************************)
(* The music history over a long run                                       *)
(*                                                                         *)
(* One listener requests the same song again whenever the queue is empty;  *)
(* the player takes the next request when it is there, which completes the *)
(* one playing, and a few of the songs are skipped instead.                *)
(***************************************************************************)
\* the default limit of get_history
HistoryLimit == 20

\* add_request of the listener's song while nothing is pending
RequestAgain ==
    /\ queue = <<>>
    /\ Len(history) < MaxPlayed
    /\ add_request([id |-> NextId, title |-> <<"a">>, artist |-> <<"x">>,
                    duration |-> 180, platform |-> "spotify",
                    requester |-> "u1"])

PlayNextSong ==
    /\ queue # <<>>
    /\ get_next_request

SkipPlaying ==
    /\ music_stats.skipped_songs < MaxSkips
    /\ current_request # None
    /\ skip_current

\* get_history(limit)
get_history(limit) == SliceFromMinus(history, limit)

MusicHistoryNext ==
    \/ RequestAgain /\ UNCHANGED nonMusicVars
    \/ PlayNextSong /\ UNCHANGED nonMusicVars
    \/ SkipPlaying /\ UNCHANGED nonMusicVars

(***************************************************************************)
(* The TTS consumer loop when engine.speak fails                           *)
(*                                                                         *)
(* The manager is initialized once, as TikBot.start does, and stays        *)
(* enabled: nobody calls update_config, clear_queue or stop.  The event    *)
(* loop runs a task that is ready and timers expire, so the consumer task  *)
(* always takes its next step.                                             *)
(***************************************************************************)
InitializeOnce ==
    /\ consumers = <<>>
    /\ initialize("engine")

TTSFailuresNext ==
    \/ InitializeOnce /\ UNCHANGED nonTTSVars
    \/ SubmitSpeech /\ UNCHANGED nonTTSVars
    \/ ConsumerStep /\ UNCHANGED nonTTSVars

(***************************************************************************)
(* TTSManager initialized again                                            *)
(*                                                                         *)
(* initialize() is not guarded against a second call: each call that finds *)
(* an engine replaces self.engine and creates one more consumer task.      *)
(***************************************************************************)
InitializeAgain ==
    /\ Len(consumers) < MaxLoops
    /\ initialize("engine")

\* update_config switching the manager off and on
SwitchTTS == \E on \in BOOLEAN : update_config([enabled |-> on])

TTSLoopsNext ==
    \/ InitializeAgain /\ UNCHANGED nonTTSVars
    \/ SubmitSpeech /\ UNCHANGED nonTTSVars
    \/ ConsumerStep /\ UNCHANGED nonTTSVars
    \/ SwitchTTS /\ UNCHANGED nonTTSVars
    \/ StopTTS /\ UNCHANGED nonTTSVars

(***************************************************************************)
(* TTSManager switched off and on                                          *)
(*                                                                         *)
(* update_config assigns self.enabled and nothing else restarts the        *)
(* consumer task: only initialize() creates one.                           *)
(***************************************************************************)
TTSSwitchNext ==
    \/ InitializeOnce /\ UNCHANGED nonTTSVars
    \/ SubmitSpeech /\ UNCHANGED nonTTSVars
    \/ ConsumerStep /\ UNCHANGED nonTTSVars
    \/ SwitchTTS /\ UNCHANGED nonTTSVars

(***************************************************************************)
(* AudioPlayer (audio/player.py)                                           *)
(*                                                                         *)
(* play_sound awaits the engine, which plays in an executor thread: calls  *)
(* made by handlers of different events overlap.  Volumes are in tenths.   *)
(***************************************************************************)
DefaultVolume == 7

FullVolume == 10

\* a float volume as an argument or a local of play_sound
Float(tenths) == [float |-> tenths]

\* the volume arguments of play_sound: none, or a float (12: above 1.0)
VolumeArguments == {None, Float(3), Float(12)}

PlayerInit ==
    /\ is_initialized \in BOOLEAN
    /\ current_volume = DefaultVolume
    /\ plays = <<>>

\* set_volume(volume): clamped to 0.0 .. 1.0
set_volume(volume) ==
    current_volume' = IF volume < 0 THEN 0
                      ELSE IF volume > FullVolume THEN FullVolume ELSE volume

\* the play_sound calls that wait for the engine
InFlight == {p \in 1..Len(plays) : plays[p].pc = "playing"}

\* play_sound(file_path, volume) of an existing file, up to its await;
\* plays holds the calls made since no call was in flight
play_sound_begins(volume) ==
    LET overlapping == IF InFlight = {} THEN <<>> ELSE plays
    IN
    IF ~is_initialized
    THEN /\ plays' = Append(overlapping,
                        [pc |-> "returned", volume |-> volume,
                         original_volume |-> None, success |-> Bool(FALSE)])
         /\ UNCHANGED <<is_initialized, current_volume>>
    ELSE IF volume # None
    THEN /\ plays' = Append(overlapping,
                        [pc |-> "playing", volume |-> volume,
                         original_volume |-> Float(current_volume),
                         success |-> None])
         /\ set_volume(volume.float)
         /\ UNCHANGED is_initialized
    ELSE /\ plays' = Append(overlapping,
                        [pc |-> "playing", volume |-> volume,
                         original_volume |-> None, success |-> None])
         /\ UNCHANGED <<is_initialized, current_volume>>

\* play_sound after _play_with_engine returned success
play_sound_returns(p, success) ==
    /\ plays[p].pc = "playing"
    /\ IF plays[p].volume # None
       THEN set_volume(plays[p].original_volume.float)
       ELSE UNCHANGED current_volume
    /\ plays' = [plays EXCEPT ![p].pc = "returned", ![p].success = Bool(success)]
    /\ UNCHANGED is_initialized

PlaySound ==
    /\ Cardinality(InFlight) < MaxPlays
    /\ Len(plays) < MaxPlays \/ InFlight = {}
    /\ \E volume \in VolumeArguments : play_sound_begins(volume)

PlaySoundReturns ==
    \E p \in 1..Len(plays), success \in BOOLEAN : play_sound_returns(p, success)

PlayerNext ==
    \/ PlaySound /\ UNCHANGED nonPlayerVars
    \/ PlaySoundReturns /\ UNCHANGED nonPlayerVars

(***************************************************************************)
(* OverlayWebSocket (overlay/websocket.py)                                 *)
(*                                                                         *)
(* websockets.serve runs handle_client as one task per connection; a       *)
(* broadcast awaits one send per client of the copy it took.               *)
(***************************************************************************)
WebSockets == {"w1", "w2"}

OverlayInit ==
    /\ clients = {}
    /\ overlay_stats = [clients_connected |-> 0, total_connections |-> 0,
                        messages_sent |-> 0, errors |-> 0]
    /\ sockets = [websocket \in WebSockets |-> "unconnected"]
    /\ broadcasts = <<>>

\* handle_client(websocket, path) up to its first await
handle_client_begins(websocket) ==
    /\ sockets[websocket] = "unconnected"
    /\ clients' = clients \cup {websocket}
    /\ overlay_stats' = [overlay_stats EXCEPT !.clients_connected = @ + 1,
                                              !.total_connections = @ + 1]
    /\ sockets' = [sockets EXCEPT ![websocket] = "open"]
    /\ UNCHANGED broadcasts

\* the peer goes away
connection_closes(websocket) ==
    /\ sockets[websocket] = "open"
    /\ sockets' = [sockets EXCEPT ![websocket] = "closed"]
    /\ UNCHANGED <<clients, overlay_stats, broadcasts>>

\* handle_client: the message loop ends with the connection, finally runs
handle_client_ends(websocket) ==
    /\ sockets[websocket] = "closed"
    /\ clients' = clients \ {websocket}
    /\ overlay_stats' = [overlay_stats EXCEPT !.clients_connected = @ - 1]
    /\ sockets' = [sockets EXCEPT ![websocket] = "finished"]
    /\ UNCHANGED broadcasts

\* broadcast(event) up to its first send: returns at once without clients
broadcast_begins ==
    /\ broadcasts' = Append(broadcasts,
                        IF clients = {}
                        THEN [pc |-> "returned", todo |-> {}, disconnected |-> {}]
                        ELSE [pc |-> "sending", todo |-> clients,
                              disconnected |-> {}])
    /\ UNCHANGED <<clients, overlay_stats, sockets>>

\* the loop over disconnected at the end of broadcast
DropDisconnected(b, disconnected) ==
    /\ clients' = clients \ disconnected
    /\ overlay_stats' = [overlay_stats EXCEPT
                            !.clients_connected = @ - Cardinality(disconnected)]
    /\ broadcasts' = [broadcasts EXCEPT ![b] =
                         [pc |-> "returned", todo |-> {},
                          disconnected |-> disconnected]]

\* broadcast: client.send raises on a connection that is closed, which ends
\* the loop without a suspension when this client is the last one
broadcast_sends(b, websocket) ==
    /\ broadcasts[b].pc = "sending"
    /\ websocket \in broadcasts[b].todo
    /\ IF sockets[websocket] = "open"
       THEN /\ overlay_stats' = [overlay_stats EXCEPT !.messages_sent = @ + 1]
            /\ broadcasts' = [broadcasts EXCEPT ![b].todo = @ \ {websocket}]
            /\ UNCHANGED clients
       ELSE IF broadcasts[b].todo = {websocket}
       THEN DropDisconnected(b, broadcasts[b].disconnected \cup {websocket})
       ELSE /\ broadcasts' = [broadcasts EXCEPT
                                 ![b].todo = @ \ {websocket},
                                 ![b].disconnected = @ \cup {websocket}]
            /\ UNCHANGED <<clients, overlay_stats>>
    /\ UNCHANGED sockets

\* broadcast resumed after its last send
broadcast_cleans(b) ==
    /\ broadcasts[b].pc = "sending"
    /\ broadcasts[b].todo = {}
    /\ DropDisconnected(b, broadcasts[b].disconnected)
    /\ UNCHANGED sockets

ClientConnects == \E websocket \in WebSockets : handle_client_begins(websocket)

ClientDisconnects == \E websocket \in WebSockets : connection_closes(websocket)

ClientHandlerEnds == \E websocket \in WebSockets : handle_client_ends(websocket)

Broadcast ==
    /\ Len(broadcasts) < MaxBroadcasts
    /\ broadcast_begins

BroadcastStep ==
    \E b \in 1..Len(broadcasts) :
        \/ \E websocket \in WebSockets : broadcast_sends(b, websocket)
        \/ broadcast_cleans(b)

OverlayNext ==
    \/ ClientConnects /\ UNCHANGED nonOverlayVars
    \/ ClientDisconnects /\ UNCHANGED nonOverlayVars
    \/ ClientHandlerEnds /\ UNCHANGED nonOverlayVars
    \/ Broadcast /\ UNCHANGED nonOverlayVars
    \/ BroadcastStep /\ UNCHANGED nonOverlayVars

(***************************************************************************)
(* Specifications: one per subsystem, the others idle in their initial     *)
(* state.                                                                  *)
(***************************************************************************)
\* the music queue as MusicManager() leaves it with the largest configuration
MusicIdle ==
    /\ MusicInit
    /\ max_queue_size = MaxQueue
    /\ max_requests_per_user = MaxPerUser

\* the TTSManager and the TikBot of the default configuration, untouched
TTSIdle == TTSConstructed(TTSModelDump)

BotIdle == BotInit /\ features = DefaultFeatures

\* the MusicManager of the default configuration, untouched
MMIdle == MMInit /\ mm_enabled

\* the SoundAlerts of the default configuration, untouched
AlertsIdle == AlertsInit /\ player_available

\* the audio player with its engine initialized, no sound played
PlayerIdle == PlayerInit /\ is_initialized

\* the overlay server without connections
OverlayIdle == OverlayInit

\* the connection of the default configuration, untouched
ConnIdle ==
    /\ ConnInit
    /\ auto_reconnect
    /\ reconnect_delay = DefaultReconnectDelay

MusicSpecInit == MusicInit /\ HubInit /\ TTSIdle /\ BotIdle /\ MMIdle /\ ConnIdle
    /\ AlertsIdle
    /\ PlayerIdle /\ OverlayIdle

SpecMusicQueue == MusicSpecInit /\ [][MusicQueueNext]_vars

SpecMusic == MusicSpecInit /\ [][MusicNext]_vars

SpecMusicAdmission == MusicSpecInit /\ [][MusicAdmissionNext]_vars

SpecMusicHistory == MusicSpecInit /\ [][MusicHistoryNext]_vars

HubSpecInit == MusicIdle /\ HubInit /\ TTSIdle /\ BotIdle /\ MMIdle /\ ConnIdle
    /\ AlertsIdle
    /\ PlayerIdle /\ OverlayIdle

SpecHub == HubSpecInit /\ [][HubNext]_vars

SpecHistory == HubSpecInit /\ [][HistoryNext]_vars

SpecRegistry == HubSpecInit /\ [][RegistryNext]_vars

TTSSpecInit == MusicIdle /\ HubInit /\ TTSInit /\ BotIdle /\ MMIdle /\ ConnIdle
    /\ AlertsIdle
    /\ PlayerIdle /\ OverlayIdle

SpecTTS == TTSSpecInit /\ [][TTSNext]_vars

SpecTTSLoops == TTSSpecInit /\ [][TTSLoopsNext]_vars

\* the consumer loop under the scheduling of the event loop
SpecTTSFailures ==
    /\ TTSSpecInit
    /\ [][TTSFailuresNext]_vars
    /\ WF_vars(ConsumerStep /\ UNCHANGED nonTTSVars)

\* the consumer loop under the scheduling of the event loop, with
\* update_config calls at any time
SpecTTSSwitch ==
    /\ TTSSpecInit
    /\ [][TTSSwitchNext]_vars
    /\ WF_vars(ConsumerStep /\ UNCHANGED nonTTSVars)

BotSpecInit == MusicIdle /\ BotHubInit /\ TTSIdle /\ BotInit /\ MMIdle /\ ConnIdle
    /\ AlertsIdle
    /\ PlayerIdle /\ OverlayIdle

SpecBot == BotSpecInit /\ [][BotNext]_vars

MusicManagerSpecInit ==
    MusicInit /\ HubInit /\ TTSIdle /\ BotIdle /\ MMInit /\ ConnIdle
    /\ AlertsIdle
    /\ PlayerIdle /\ OverlayIdle

SpecMusicManager == MusicManagerSpecInit /\ [][MusicManagerNext]_vars

\* the comment pipeline's features stay at their defaults; TTS is on or off
ReconnectSpecInit ==
    MusicIdle /\ BotHubInit /\ TTSIdle /\ BotInit /\ MMIdle /\ ConnInit
    /\ AlertsIdle
    /\ features \in {DefaultFeatures, [DefaultFeatures EXCEPT !.tts_enabled = TRUE]}
    /\ PlayerIdle /\ OverlayIdle

SpecReconnect == ReconnectSpecInit /\ [][ReconnectNext]_vars

SubscribersSpecInit ==
    MusicIdle /\ SubscribedHubInit /\ TTSIdle /\ BotInit /\ MMIdle /\ ConnIdle
    /\ AlertsIdle
    /\ features = [DefaultFeatures EXCEPT !.tts_enabled = TRUE]
    /\ PlayerIdle /\ OverlayIdle

SpecSubscribers == SubscribersSpecInit /\ [][SubscribersNext]_vars

SpecCounters == SubscribersSpecInit /\ [][CountersNext]_vars

AlertsSpecInit ==
    MusicIdle /\ HubInit /\ TTSIdle /\ BotIdle /\ MMIdle /\ ConnIdle
    /\ AlertsInit
    /\ PlayerIdle /\ OverlayIdle

SpecAlerts == AlertsSpecInit /\ [][AlertsNext]_vars

QueuesSpecInit ==
    MusicInit /\ HubInit /\ TTSInit /\ BotIdle /\ MMIdle /\ ConnIdle
    /\ AlertsIdle
    /\ PlayerIdle /\ OverlayIdle

SpecQueues == QueuesSpecInit /\ [][QueuesNext]_vars

PlayerSpecInit ==
    MusicIdle /\ HubInit /\ TTSIdle /\ BotIdle /\ MMIdle /\ ConnIdle
    /\ AlertsIdle /\ PlayerInit /\ OverlayIdle

SpecPlayer == PlayerSpecInit /\ [][PlayerNext]_vars

OverlaySpecInit ==
    MusicIdle /\ HubInit /\ TTSIdle /\ BotIdle /\ MMIdle /\ ConnIdle
    /\ AlertsIdle /\ PlayerIdle /\ OverlayInit

SpecOverlay == OverlaySpecInit /\ [][OverlayNext]_vars

\* C1: emit isolates handler faults: when a call of emit with two or more
\* handlers, one of which raised, is over, it has returned normally and every
\* other handler has run to completion; emit never raises to its caller.
C1_FanOutIsolation ==
    \A c \in 1..Len(calls) :
        /\ calls[c].state # "raised"
        /\ (calls[c].state = "returned"
              => \A i \in 1..Len(calls[c].tasks) :
                    calls[c].tasks[i].pc =
                        IF Raises(calls[c].tasks[i].handler) THEN "raised" ELSE "returned")

\* C1 witness: an emit with a raising and a non-raising handler has returned.
C1_Witness ==
    \E c \in 1..Len(calls) :
        /\ calls[c].state = "returned"
        /\ Len(calls[c].tasks) >= 2
        /\ \E i \in 1..Len(calls[c].tasks) : calls[c].tasks[i].pc = "raised"
        /\ \E i \in 1..Len(calls[c].tasks) :
              /\ calls[c].tasks[i].pc = "returned"
              /\ calls[c].tasks[i].runs = "loop"
HistoryLimits == {0, 1, 100, 1000, 1001}

HistoryFilters == {None} \cup {[type |-> t] : t \in HistoryEventTypes}

\* C2: the history never holds more than 1000 events; after more than 1000
\* emits, get_event_history(limit=1000) is exactly the 1000 most recently
\* emitted events in emission order, and no call of get_event_history
\* returns an event emitted before them.
C2_HistoryBound ==
    /\ Len(event_history) <= 1000
    /\ (emitted > 1000 =>
          /\ LET got == get_event_history(None, 1000)
             IN /\ Len(got) = 1000
                /\ \A i \in 1..1000 : got[i].id = emitted - 1000 + i
          /\ \A event_type \in HistoryFilters : \A limit \in HistoryLimits :
                LET got == get_event_history(event_type, limit)
                IN \A i \in 1..Len(got) : got[i].id > emitted - 1000)

\* C2 witness: more than 1000 events were emitted, so one was evicted.
C2_Witness ==
    /\ emitted > 1000
    /\ Len(get_event_history(None, 1000)) = 1000
    /\ event_history[1].id = emitted - 999

\* the requests of username that wait in the queue or are being spoken
TTSOutstanding(username) ==
    Cardinality({n \in 1..Len(tts_queue) : tts_queue[n].username = username})
    + Cardinality({k \in 1..Len(consumers) :
                      /\ consumers[k].pc = "speak"
                      /\ consumers[k].request.username = username})

\* C6: with a per-user maximum of 3 in the TTS configuration, a submission
\* of a user who has three requests outstanding is rejected: no call of
\* request_tts by such a user returns True.
C6_TTSPerUserQuota ==
    [][\A text \in TTSTexts : \A username \in TTSUsers : \A priority \in TTSPriorities :
          (/\ DictGet(tts_config, "max_requests_per_user", 0) = PerUserMax
           /\ TTSOutstanding(username) >= PerUserMax
           /\ request_tts(text, username, priority))
          => tts_result' = Bool(FALSE)]_vars

\* the events of type event_type a handler emitted for the event id
Caused(h, event_type, id) ==
    {n \in 1..Len(h) : h[n].type = event_type /\ h[n].cause = id}

\* handle_comment(event) runs as a step of the behaviour
HandlesComment(event) ==
    \E c \in 1..Len(calls) : \E i \in 1..Len(calls[c].tasks) : \E pick \in Picks :
        /\ calls[c].event = event
        /\ calls[c].tasks[i].pc = "pending"
        /\ calls[c].tasks[i].handler = "handle_comment"
        /\ handle_comment(c, i, pick)

\* the comment events an emit call holds
HandledEvents == {calls[c].event : c \in 1..Len(calls)}

\* the comment starts with the command prefix and its first word is a key
\* of the command table
MatchesCommand(comment) ==
    /\ startswith(comment, <<"!">>)
    /\ lower(FirstToken(comment)) \in DOMAIN commands

\* C8: when handle_comment handles a comment that is not spam and matches
\* both a registered command, command processing being enabled, and an
\* auto-response keyword, it emits exactly one COMMAND event and no
\* AUTO_RESPONSE event for that comment.
C8_CommandExcludesAutoResponse ==
    [][\A event \in HandledEvents :
          (/\ event.type = "comment"
           /\ ~_is_spam(event.data.comment)
           /\ features.command_processing
           /\ MatchesCommand(event.data.comment)
           /\ MatchingKeywords(event.data.comment) # {}
           /\ HandlesComment(event))
          => /\ Cardinality(Caused(event_history', "command", event.id)) = 1
             /\ Caused(event_history', "auto_response", event.id) = {}]_vars

\* C8 witness: a COMMAND event was emitted for a comment that also holds an
\* auto-response keyword, with the auto-response feature on.
C8_Witness ==
    /\ features.auto_response
    /\ \E n \in 1..Len(event_history) : \E m \in 1..Len(event_history) :
          /\ event_history[n].type = "command"
          /\ event_history[m].type = "comment"
          /\ event_history[m].id = event_history[n].cause
          /\ MatchingKeywords(event_history[m].data.comment) # {}

\* C9: when handle_comment handles a comment of the spam blocklist, with
\* the spam filter enabled, it emits exactly one SPAM_DETECTED event and
\* nothing else happens for that comment: no COMMAND event, no
\* AUTO_RESPONSE event and no request_tts call.
C9_SpamIsTerminal ==
    [][\A event \in HandledEvents :
          (/\ event.type = "comment"
           /\ _is_spam(event.data.comment)
           /\ HandlesComment(event))
          => /\ Cardinality(Caused(event_history', "spam_detected", event.id)) = 1
             /\ Caused(event_history', "command", event.id) = {}
             /\ Caused(event_history', "auto_response", event.id) = {}
             /\ \A n \in 1..Len(tts_calls') : tts_calls'[n].cause # event.id
             /\ ttsVars' = ttsVars
             /\ bot_stats'.commands_processed = bot_stats.commands_processed
             /\ bot_stats'.auto_responses_sent = bot_stats.auto_responses_sent]_vars

\* C9 witness: SPAM_DETECTED was emitted for a comment that is also a
\* registered command, while the bot has a TTS manager and every feature on.
C9_Witness ==
    /\ features.command_processing
    /\ features.tts_enabled
    /\ tts_manager # None
    /\ \E n \in 1..Len(event_history) : \E m \in 1..Len(event_history) :
          /\ event_history[n].type = "spam_detected"
          /\ event_history[m].type = "comment"
          /\ event_history[m].id = event_history[n].cause
          /\ MatchesCommand(event_history[m].data.comment)

\* C10: when handle_comment handles the comment "!stats", command
\* processing being enabled and the comment not spam, it emits a COMMAND
\* event whose response holds the messages, gifts and followers counters
\* as they are then.
C10_StatsCommandAnswers ==
    [][\A event \in HandledEvents :
          (/\ event.type = "comment"
           /\ event.data.comment = StatsCommand
           /\ features.command_processing
           /\ ~_is_spam(event.data.comment)
           /\ HandlesComment(event))
          => \E n \in Caused(event_history', "command", event.id) :
                LET response == event_history'[n].data.response
                IN /\ response.text = "stats"
                   /\ response.messages = bot_stats'.messages_received
                   /\ response.gifts = bot_stats'.gifts_received
                   /\ response.followers = bot_stats'.followers_gained]_vars

\* C11: on the auto-response path the keywords are scanned in insertion
\* order and the first one contained in the comment wins: handle_comment
\* emits at most one AUTO_RESPONSE event for a comment, the event names the
\* first matching keyword of the table and its response is one of that
\* keyword's responses.
C11_FirstKeywordWins ==
    [][\A event \in HandledEvents :
          (event.type = "comment" /\ HandlesComment(event))
          => LET sent == Caused(event_history', "auto_response", event.id)
                 matching == MatchingKeywords(event.data.comment)
             IN /\ Cardinality(sent) <= 1
                /\ \A n \in sent :
                      /\ matching # {}
                      /\ \E i \in matching :
                            /\ \A j \in matching : i <= j
                            /\ event_history'[n].data.keyword = auto_responses[i].keyword
                            /\ \E r \in 1..Len(auto_responses[i].responses) :
                                  event_history'[n].data.response
                                      = auto_responses[i].responses[r]]_vars

\* C11 witness: an AUTO_RESPONSE event was emitted for a comment that holds
\* two keywords of the table.
C11_Witness ==
    \E n \in 1..Len(event_history) : \E m \in 1..Len(event_history) :
        /\ event_history[n].type = "auto_response"
        /\ event_history[m].type = "comment"
        /\ event_history[m].id = event_history[n].cause
        /\ Cardinality(MatchingKeywords(event_history[m].data.comment)) >= 2

\* the request_tts calls the bot made while it handled the event id
Submitted(log, id) == {n \in 1..Len(log) : log[n].cause = id}

\* the text after the prefix of an explicit TTS command, stripped
TTSCommandText(comment) == strip(SubSeq(comment, 6, Len(comment)))

\* C12: for a comment that is not spam, with the TTS feature enabled, the
\* submission step runs whatever the command and auto-response branches
\* did: a comment "!tts <text>" makes one request_tts call with the text
\* after the prefix and priority 1; any other comment makes one call with
\* the whole comment and priority 2 when ambient reading is on and its
\* length is within [5, 50], and no call otherwise.
C12_TTSStepAlwaysRuns ==
    [][\A event \in HandledEvents :
          (/\ event.type = "comment"
           /\ ~_is_spam(event.data.comment)
           /\ features.tts_enabled
           /\ HandlesComment(event))
          => LET comment == event.data.comment
                 made == Submitted(tts_calls', event.id)
                 explicit == startswith(comment, <<"!", "t", "t", "s", " ">>)
             IN IF explicit /\ TTSCommandText(comment) # <<>>
                THEN /\ Cardinality(made) = 1
                     /\ \A n \in made :
                           /\ tts_calls'[n].text = TTSCommandText(comment)
                           /\ tts_calls'[n].username = event.data.username
                           /\ tts_calls'[n].priority = 1
                ELSE IF ~explicit /\ auto_read_chat
                        /\ 5 <= Len(comment) /\ Len(comment) <= 50
                THEN /\ Cardinality(made) = 1
                     /\ \A n \in made :
                           /\ tts_calls'[n].text = comment
                           /\ tts_calls'[n].priority = 2
                ELSE made = {}]_vars

\* C12 witness: one comment produced both an AUTO_RESPONSE event and a
\* request_tts call of priority 1 whose text lost the prefix.
C12_Witness ==
    \E n \in 1..Len(tts_calls) : \E m \in 1..Len(event_history) :
        /\ event_history[m].type = "auto_response"
        /\ event_history[m].cause = tts_calls[n].cause
        /\ tts_calls[n].priority = 1
        /\ tts_calls[n].text = <<"h", "i">>

\* the title and artist of request match, after lower(), those of a request
\* pending in the queue
IsDuplicate(request) ==
    \E i \in 1..Len(queue) :
        /\ lower(queue[i].title) = lower(request.title)
        /\ lower(queue[i].artist) = lower(request.artist)

\* the request passes the duration, platform and blocked-keyword checks
PassesContentChecks(request) ==
    /\ request.duration <= max_duration
    /\ request.platform \in allowed_platforms
    /\ \A keyword \in blocked_keywords :
          ~Contains(lower(keyword), TextToCheck(request))

\* C13 as stated: every request whose title and artist match a pending
\* request is rejected with the duplicate error, and the queue and the
\* per-requester counts stay as they are.
C13_DuplicateError ==
    [][\A request \in RequestInputs :
          (IsDuplicate(request) /\ add_request(request))
          => /\ "error" \in DOMAIN music_result'
             /\ music_result'.error = "duplicate"
             /\ queue' = queue
             /\ user_request_limits' = user_request_limits]_vars

\* C13 amended: every request whose title and artist match a pending request
\* is rejected and leaves the queue and the per-requester counts as they
\* are; the error is the duplicate error when the request passes the
\* duration, platform and blocked-keyword checks, which come first.
C13_DuplicateRejected ==
    [][\A request \in RequestInputs :
          (IsDuplicate(request) /\ add_request(request))
          => /\ "error" \in DOMAIN music_result'
             /\ "request_id" \notin DOMAIN music_result'
             /\ PassesContentChecks(request) => music_result'.error = "duplicate"
             /\ queue' = queue
             /\ user_request_limits' = user_request_limits]_vars

\* C13 witness: the last call returned the duplicate error while a request
\* is pending.
C13_Witness ==
    /\ queue # <<>>
    /\ "error" \in DOMAIN music_result
    /\ music_result.error = "duplicate"

\* a result that reports a rejection: success is False and an error is named
IsRejection(result) ==
    /\ "success" \in DOMAIN result
    /\ ~result["success"]
    /\ "error" \in DOMAIN result

\* the reasons for which add_request turns a request down
AdmissionErrors ==
    {"queue_full", "user_limit", "too_long", "platform", "blocked", "duplicate"}

\* C14: every admission rejection of a music request (queue full, requester
\* quota exceeded, content failing validation, duplicate) is returned to the
\* caller of the queue and to the caller of request_song as a result with
\* success = False and an error naming that reason: whenever request_song
\* hands a found track to add_request and the queue does not take it, the
\* queue's result and request_song's result are both rejections carrying the
\* same admission error.
C14_RejectionsSurfaced ==
    [][\A lookup \in Lookups :
          (/\ mm_enabled
           /\ mm_stats.total_requests < MaxSongRequests
           /\ lookup.found
           /\ ~(lookup.request.platform = "spotify" /\ lookup.explicit
                /\ ~allow_explicit)
           /\ request_song(lookup)
           /\ queue' = queue)
          => /\ IsRejection(music_result')
             /\ IsRejection(mm_result')
             /\ music_result'["error"] \in AdmissionErrors
             /\ mm_result'["error"] = music_result'["error"]]_vars

\* C20: when MusicManager accepts a music request into the queue while it is
\* registered with the event hub, the caller receives a success result and a
\* MUSIC_REQUEST_ADDED event carrying that request is emitted through the
\* EventHandler and recorded in its history.
C20_AcceptedRequestIsAnnounced ==
    [][\A lookup \in Lookups :
          (/\ mm_enabled
           /\ mm_event_handler # None
           /\ mm_stats.total_requests < MaxSongRequests
           /\ lookup.found
           /\ request_song(lookup)
           /\ queue' = Append(queue, lookup.request))
          => /\ "success" \in DOMAIN mm_result'
             /\ mm_result'["success"]
             /\ emitted' = emitted + 1
             /\ \E i \in 1..Len(event_history') :
                   /\ event_history'[i].type = "music_request_added"
                   /\ event_history'[i].data = lookup.request]_vars

\* the client.connect() calls the on_disconnect task k made
ConnectsOf(k) == {c \in 1..Len(connects) : connects[c].task = k}

\* C15: a disconnect with auto-reconnect enabled, a reconnect delay d and the
\* bot running throughout gets exactly one reconnect attempt (client.connect),
\* made no earlier than d after the disconnect and after the DISCONNECT event
\* was emitted; no attempt is made without a disconnect of its own.  For every
\* on_disconnect task: it made at most one connect call; that call came at
\* least reconnect_delay after the disconnect, with the task's DISCONNECT
\* event already emitted and recorded; and a task of a running bot that is
\* past its sleep, the bot still running, has made its one call.
C15_OneReconnectPerDisconnect ==
    /\ \A c \in 1..Len(connects) : connects[c].task \in 1..Len(disconnects)
    /\ \A k \in 1..Len(disconnects) :
          /\ Cardinality(ConnectsOf(k)) <= 1
          /\ \A c \in ConnectsOf(k) :
                /\ connects[c].time >= disconnects[k].at + reconnect_delay
                /\ connects[c].emitted >= disconnects[k].event
                /\ \E i \in 1..Len(event_history) :
                      /\ event_history[i].id = disconnects[k].event
                      /\ event_history[i].type = "disconnect"
          /\ (/\ auto_reconnect
              /\ disconnects[k].running
              /\ is_running
              /\ disconnects[k].pc \in {"connecting", "done"})
             => Cardinality(ConnectsOf(k)) = 1
          /\ ~(auto_reconnect /\ disconnects[k].running)
             => ConnectsOf(k) = {}

\* C15 witness: two disconnects of a running bot have each been answered by
\* one reconnect attempt, both handlers have ended and the bot still runs.
C15_Witness ==
    /\ is_running
    /\ Len(disconnects) = 2
    /\ \A k \in 1..Len(disconnects) :
          /\ disconnects[k].pc = "done"
          /\ Cardinality(ConnectsOf(k)) = 1

\* C16: reconnection happens only while the running flag is true: once stop()
\* has set the flag false it stays false and no on_disconnect task calls
\* client.connect, neither one whose reconnect delay was pending when stop()
\* was called nor the one of the disconnect stop() itself causes; and every
\* call that was made found the flag true.
C16_NoReconnectAfterStop ==
    [][/\ stop_call # "not_called" => (~is_running' /\ connects' = connects)
       /\ \A c \in 1..Len(connects') : connects'[c].running]_vars

\* C16 witness: stop() has returned; a handler that was sleeping when stop()
\* was called has ended without a connect call, and so has the handler of the
\* disconnect that stop() caused.
C16_Witness ==
    /\ stop_call = "returned"
    /\ auto_reconnect
    /\ \E k \in 1..Len(disconnects) :
          /\ disconnects[k].cause = "network"
          /\ disconnects[k].running
          /\ disconnects[k].pc = "done"
          /\ ConnectsOf(k) = {}
    /\ \E k \in 1..Len(disconnects) :
          /\ disconnects[k].cause = "stop"
          /\ disconnects[k].pc = "done"
          /\ ConnectsOf(k) = {}

\* C17: for a named sound alert with cooldown c > 0, any two successful
\* firings of the same alert are separated by at least c, under every
\* interleaving of concurrently handled trigger_alert calls.  The time of a
\* firing is the one _set_cooldown records for it.
C17_CooldownSeparatesFirings ==
    \A i \in 1..Len(firings) : \A j \in 1..Len(firings) :
        (/\ i < j
         /\ firings[i].name = firings[j].name
         /\ firings[i].cooldown > 0)
        => firings[j].at - firings[i].at >= firings[i].cooldown

\* the priority the drain loop sees: 1 for a VIP requester, else the one the
\* request was submitted with (1 is the highest)
EffectivePriority(request) ==
    IF request.username \in vip_users THEN 1 ELSE request.priority

\* C18: in the TTS drain loop a pending request of higher priority (priority
\* 1 of an explicit TTS command, or a VIP requester) is handed to the engine
\* before pending requests of lower priority: whenever _process_tts_queue
\* takes a request from the queue, no request left pending has a higher
\* priority than the one taken.
C18_HigherPriorityFirst ==
    [][\A k \in 1..Len(consumers) :
          (tts_queue # <<>> /\ ConsumerGet(k))
          => \A i \in 1..Len(tts_queue') :
                EffectivePriority(tts_queue'[i])
                    >= EffectivePriority(Head(tts_queue))]_vars

\* the ids of the requests in a queue
IdsOf(q) == {q[i].id : i \in 1..Len(q)}

\* C19: within one request queue the drain order is FIFO: of two requests
\* pending together, the one accepted first is handed to the executor first.
\* Whenever get_next_request makes a request the playing one, that request
\* was pending and no request pending with it was accepted before it; and
\* whenever the TTS drain loop takes a request from its queue, it takes one
\* request and no request left pending was submitted before it.  Ids number
\* the requests of a queue in the order of their acceptance.
C19_DrainIsFIFO ==
    [][/\ (current_request' # current_request /\ current_request' # None)
          => /\ current_request'.id \in IdsOf(queue)
             /\ \A id \in IdsOf(queue) : id >= current_request'.id
       /\ \A k \in 1..Len(consumers) :
             (tts_queue # <<>> /\ ConsumerGet(k))
             => /\ Cardinality(IdsOf(tts_queue) \ IdsOf(tts_queue')) = 1
                /\ \A taken \in IdsOf(tts_queue) \ IdsOf(tts_queue') :
                      \A id \in IdsOf(tts_queue') : taken < id]_vars

\* C19 witness: the first of two songs has been played and the second is
\* playing.
C19_Witness ==
    /\ current_request # None
    /\ \E i \in 1..Len(history) :
          /\ history[i].id < current_request.id
          /\ status[history[i].id] = "completed"

\* how many times handler is registered for event_type in the registry hs
Registered(hs, event_type, handler) ==
    Cardinality({i \in 1..Len(DictGet(hs, event_type, <<>>)) :
                    hs[event_type][i] = handler})

\* how many of the tasks of an emit call run handler
Invocations(call, handler) ==
    Cardinality({i \in 1..Len(call.tasks) : call.tasks[i].handler = handler})

\* C21: the hub respects registration counts.  Every add_handler(T, h) adds
\* one registration of h for T and every remove_handler(T, h) takes one away
\* when there is one, both leaving the other registrations alone, so that
\* after k additions and j removals of registered handlers h is registered
\* k - j times; remove_handler of a handler or event type that is not
\* registered leaves the registry unchanged; and an emit of a T event invokes
\* each handler as many times as it is registered for T.
C21_RegistrationCounts ==
    [][\A event_type \in HubEventTypes : \A handler \in RegistryHandlers :
          /\ add_handler(event_type, handler)
             => /\ Registered(handlers', event_type, handler)
                      = Registered(handlers, event_type, handler) + 1
                /\ \A other \in RegistryHandlers \ {handler} :
                      Registered(handlers', event_type, other)
                          = Registered(handlers, event_type, other)
          /\ remove_handler(event_type, handler)
             => IF Registered(handlers, event_type, handler) = 0
                THEN handlers' = handlers
                ELSE /\ Registered(handlers', event_type, handler)
                           = Registered(handlers, event_type, handler) - 1
                     /\ \A other \in RegistryHandlers \ {handler} :
                           Registered(handlers', event_type, other)
                               = Registered(handlers, event_type, other)
          /\ emit(NewEvent(event_type), <<>>)
             => Invocations(calls'[1], handler)
                   = Registered(handlers, event_type, handler)]_vars

\* C21 witness: a handler registered twice was invoked twice by one emit, and
\* after one removal it is registered once.
C21_Witness ==
    \E handler \in RegistryHandlers : \E event_type \in HubEventTypes :
        /\ Len(calls) = 1
        /\ calls[1].event.type = event_type
        /\ Invocations(calls[1], handler) = 2
        /\ Registered(handlers, event_type, handler) = 1

\* the commands whose response _process_command computes
SpecialCommands == {TimeCommand, StatsCommand, CommandsCommand}

\* C22: the command surface round-trips.  When handle_comment handles a
\* comment that is not spam and starts with the command prefix, command
\* processing being enabled, and the first token of the comment is a
\* command c of the table that is not a special one, it emits a COMMAND
\* event whose response is the response c was added with.
C22_AddedCommandAnswers ==
    [][\A event \in HandledEvents :
          (/\ event.type = "comment"
           /\ ~_is_spam(event.data.comment)
           /\ startswith(event.data.comment, <<"!">>)
           /\ features.command_processing
           /\ FirstToken(event.data.comment) \in DOMAIN commands
           /\ FirstToken(event.data.comment) \notin SpecialCommands
           /\ HandlesComment(event))
          => \E n \in Caused(event_history', "command", event.id) :
                event_history'[n].data.response
                    = [text |-> commands[FirstToken(event.data.comment)]]]_vars

\* the emit calls that have not returned
CallsInProgress == {c \in 1..Len(calls) : calls[c].state = "gathering"}

\* C23: the event history lists the events in the order in which emit was
\* called (an event's id is the number of its emit call): whatever the
\* interleaving of the emit calls in progress, every event emitted so far is
\* listed, an event emitted earlier stands before one emitted later, and the
\* event that caused a secondary event stands before it.
C23_HistoryInEmitOrder ==
    /\ Len(event_history) = emitted
    /\ \A n \in 1..Len(event_history) : event_history[n].id = n
    /\ \A m \in 1..Len(event_history) :
          event_history[m].cause # 0
          => \E n \in 1..(m - 1) : event_history[n].id = event_history[m].cause

\* C23 witness: the emits of two comments are in progress at once, the
\* secondary event of the later comment was emitted before that of the
\* earlier one, and both secondary emits are in progress too.
C23_Witness ==
    \E c \in CallsInProgress : \E d \in CallsInProgress :
    \E e \in CallsInProgress : \E f \in CallsInProgress :
        /\ calls[c].event.type = "comment"
        /\ calls[d].event.type = "comment"
        /\ calls[c].event.id < calls[d].event.id
        /\ calls[e].event.cause = calls[d].event.id
        /\ calls[f].event.cause = calls[c].event.id
        /\ calls[e].event.id < calls[f].event.id

\* the handler tasks of an emit call have all finished
AllFinished(call) ==
    \A i \in 1..Len(call.tasks) : call.tasks[i].pc \in {"returned", "raised"}

\* C24: emit is a barrier.  An emit call that has returned has no handler
\* still running, and for a comment the emit call of the COMMAND,
\* AUTO_RESPONSE or SPAM_DETECTED event it caused has returned as well, with
\* all of its handlers finished.
C24_EmitIsBarrier ==
    \A c \in 1..Len(calls) :
        calls[c].state # "gathering"
        => /\ AllFinished(calls[c])
           /\ \A d \in CallsCausedBy(calls[c].event.id) :
                 /\ calls[d].state # "gathering"
                 /\ AllFinished(calls[d])

\* C24 witness: the emit of a comment has returned after handle_comment
\* awaited the emit of a COMMAND event with two handlers, one of which
\* raised.
C24_Witness ==
    \E c \in 1..Len(calls) : \E d \in CallsCausedBy(calls[c].event.id) :
        /\ calls[c].event.type = "comment"
        /\ calls[c].state = "returned"
        /\ calls[d].event.type = "command"
        /\ Len(calls[d].tasks) = 2
        /\ \E i \in 1..2 : calls[d].tasks[i].pc = "raised"

\* C25: whenever the playing request is completed by get_next_request or
\* skipped by skip_current, it is appended to the history, its status is
\* completed or skipped respectively, and the count the queue keeps for its
\* requester goes down by exactly one.
C25_CompletionBookkeeping ==
    [][/\ (current_request # None /\ queue # <<>> /\ get_next_request)
          => /\ history' = Append(history, current_request)
             /\ status'[current_request.id] = "completed"
             /\ DictGet(user_request_limits', current_request.requester, 0)
                   = DictGet(user_request_limits, current_request.requester, 0) - 1
       /\ (current_request # None /\ skip_current)
          => /\ history' = Append(history, current_request)
             /\ status'[current_request.id] = "skipped"
             /\ DictGet(user_request_limits', current_request.requester, 0)
                   = DictGet(user_request_limits, current_request.requester, 0) - 1]_vars

\* C26: the music history is bounded: it never holds more entries than the
\* limit get_history applies, however many requests complete or are
\* skipped.
C26_HistoryBounded == Len(history) <= HistoryLimit

\* the requests taken from the queue whose speak call is over
Finished ==
    tts_stats.total_requests - tts_stats.filtered_messages
        - tts_stats.queue_full_drops - Len(tts_queue)
        - Cardinality({k \in 1..Len(consumers) : consumers[k].pc = "speak"})

\* some speak call has failed: fewer plays succeeded than have finished
SpeakFailed == Finished > tts_stats.successful_plays

\* the request with this id waits in the queue
Queued(id) == \E i \in 1..Len(tts_queue) : tts_queue[i].id = id

\* the request with this id is in engine.speak
HandedToEngine(id) ==
    \E k \in 1..Len(consumers) :
        /\ consumers[k].pc = "speak"
        /\ consumers[k].request.id = id

\* C27: a failing engine.speak does not stop the consumer loop.  The step
\* in which speak returns False or raises puts nothing back into the queue
\* and leaves the loop at its pause, and while the manager stays enabled
\* every request that waits in the queue after a speak call has failed is
\* eventually handed to the engine.
C27_LoopSurvivesFailure ==
    /\ [][\A k \in 1..Len(consumers) :
            (ConsumerSpoke(k, FALSE) \/ ConsumerSpeakRaises(k))
            => /\ tts_queue' = tts_queue
               /\ consumers'[k] = [pc |-> "sleep", request |-> None]]_vars
    /\ \A id \in 1..MaxSpeech :
          (SpeakFailed /\ Queued(id)) ~> HandedToEngine(id)

\* C27 witness: a request is in engine.speak after an earlier speak call
\* failed.
C27_Witness ==
    /\ SpeakFailed
    /\ enabled
    /\ \E id \in 2..MaxSpeech : HandedToEngine(id)

\* C28: a request whose engine.speak call fails (returns False or raises)
\* is recorded as failed.  A TTSManager keeps no list of past requests and
\* a TTSRequest has no status, so its only record is the stats dict: the
\* step in which speak fails changes it.
C28_FailedSpeakIsRecorded ==
    [][\A k \in 1..Len(consumers) :
          (ConsumerSpoke(k, FALSE) \/ ConsumerSpeakRaises(k))
          => tts_stats' # tts_stats]_vars

\* the consumer tasks that have not ended
LiveConsumers == {k \in 1..Len(consumers) : consumers[k].pc # "done"}

\* the consumer tasks inside engine.speak
Speaking == {k \in 1..Len(consumers) : InSpeak(k)}

\* C29: a TTSManager has at most one consumer loop and its speak calls are
\* serial: after any sequence of initialize, request_tts, update_config and
\* stop, no two consumer tasks are alive and no two engine.speak calls are
\* in progress at once.
C29_OneConsumerSerialSpeech ==
    /\ Cardinality(LiveConsumers) <= 1
    /\ Cardinality(Speaking) <= 1

\* C30: stop() stops the consumer before it returns.  When the sleep of
\* stop() is over and stop() returns, no consumer task is inside
\* engine.speak: the loop has seen that the manager is disabled and has
\* ended.
C30_StopEndsTheLoop ==
    [][tts_stop_returns => \A k \in 1..Len(consumers) : ~InSpeak(k)]_vars

\* C31: when start() has failed and re-raised, the bot is stopped rather
\* than left degraded: is_running is false and the TTSManager that start()
\* constructed has been shut down, its stop() having returned.
C31_FailedStartShutsDown ==
    start_call = "raised"
    => /\ ~is_running
       /\ tts_manager # None => tts_stop = "returned"

\* C32: for every requester the stored counter user_request_limits[u] (0
\* when u has no entry) is never negative and equals the number of u's
\* requests that are pending in the queue or playing.
C32_CounterMatchesOutstanding ==
    \A u \in Users :
        /\ DictGet(user_request_limits, u, 0) >= 0
        /\ DictGet(user_request_limits, u, 0) = Outstanding(u)

\* in how many of queue, current_request and history the request id is held
Places(id) ==
    Cardinality({i \in 1..Len(queue) : queue[i].id = id})
    + (IF current_request # None /\ current_request.id = id THEN 1 ELSE 0)
    + Cardinality({i \in 1..Len(history) : history[i].id = id})

\* C33: each accepted request is in at most one of queue, current_request
\* and history; every request in the queue is pending, current_request is
\* playing and no other request is, and every request in the history is
\* completed or skipped.
C33_PlacesAndStatus ==
    /\ \A id \in DOMAIN status : Places(id) <= 1
    /\ \A i \in 1..Len(queue) : status[queue[i].id] = "pending"
    /\ current_request # None => status[current_request.id] = "playing"
    /\ \A id \in DOMAIN status :
          status[id] = "playing"
          => current_request # None /\ current_request.id = id
    /\ \A i \in 1..Len(history) :
          status[history[i].id] \in {"completed", "skipped"}

\* C33 witness: one request was completed and is in the history while the
\* next one is playing.
C33_Witness ==
    /\ current_request # None
    /\ \E i \in 1..Len(history) : status[history[i].id] = "completed"


\* C34: whenever MusicManager.request_song returns success = false, the music
\* queue, the current request and the per-requester counts are exactly as
\* they were before the call.
C34_FailureLeavesQueueAlone ==
    [][\A lookup \in Lookups :
          (/\ mm_stats.total_requests < MaxSongRequests
           /\ request_song(lookup)
           /\ "success" \in DOMAIN mm_result'
           /\ ~mm_result'["success"])
          => /\ queue' = queue
             /\ current_request' = current_request
             /\ user_request_limits' = user_request_limits]_vars


\* C35: whenever the TTS manager is enabled with an engine and holds an
\* accepted request in its queue, that request is eventually handed to
\* engine.speak (or the manager is switched off again), also after the
\* manager was disabled and re-enabled through update_config.  The queue is
\* never cleared and the manager never stopped here.
C35_AcceptedIsEventuallySpoken ==
    \A id \in 1..MaxSpeech :
        (enabled /\ engine # None /\ Queued(id))
        ~> (HandedToEngine(id) \/ ~enabled)


\* the overlapping play_sound calls that were given a volume of their own
Overriding == {p \in 1..Len(plays) : plays[p].original_volume # None}

\* the first of them
FirstOverriding == CHOOSE p \in Overriding : \A q \in Overriding : p <= q

\* C36: a per-call volume override of play_sound is temporary: in the step
\* in which the last of a group of overlapping play_sound calls returns,
\* current_volume becomes the volume the player had before the first
\* overriding call of the group started (no call without a volume of its
\* own changes the player volume).
C36_OverrideIsTemporary ==
    [][\A p \in 1..Len(plays), success \in BOOLEAN :
          (/\ InFlight = {p}
           /\ Overriding # {}
           /\ play_sound_returns(p, success))
          => current_volume' = plays[FirstOverriding].original_volume.float]_vars


\* C37: in the overlay WebSocket server the clients_connected statistic
\* always equals the number of clients in the registered client set and is
\* never negative, for every interleaving of client connects, client
\* disconnects and broadcasts that drop a dead client.
C37_ConnectedCountsClients ==
    /\ overlay_stats.clients_connected = Cardinality(clients)
    /\ overlay_stats.clients_connected >= 0


\* the handle_comment tasks of COMMENT events that have started
StartedCommentHandlers ==
    {<<c, i>> \in (1..Len(calls)) \X (1..MaxHandlers + 1) :
        /\ calls[c].event.type = "comment"
        /\ i <= Len(calls[c].tasks)
        /\ calls[c].tasks[i].handler = "handle_comment"
        /\ calls[c].tasks[i].pc # "pending"}

\* the comments that were answered or filtered
Dispositions ==
    bot_stats.spam_filtered + bot_stats.commands_processed
    + bot_stats.auto_responses_sent

\* the counters agree with the handlers that have started
CountersAgree ==
    /\ bot_stats.messages_received = Cardinality(StartedCommentHandlers)
    /\ Dispositions <= bot_stats.messages_received

\* C38: the counters stay consistent under any interleaving of concurrently
\* handled comments: messages_received equals the number of COMMENT events
\* whose handler has started, each comment increments at most one of
\* spam_filtered, commands_processed and auto_responses_sent, and so their
\* sum never exceeds messages_received.
C38_CountersConsistent ==
    /\ CountersAgree
    /\ [][/\ CountersAgree'
          /\ bot_stats'.messages_received - bot_stats.messages_received \in {0, 1}
          /\ Dispositions' - Dispositions
                <= bot_stats'.messages_received - bot_stats.messages_received
          /\ bot_stats'.spam_filtered >= bot_stats.spam_filtered
          /\ bot_stats'.commands_processed >= bot_stats.commands_processed
          /\ bot_stats'.auto_responses_sent >= bot_stats.auto_responses_sent]_vars

\* C38 witness: the handlers of two comments are suspended at the same time,
\* one after an auto response, and both comments were counted.
C38_Witness ==
    /\ bot_stats.messages_received = 2
    /\ bot_stats.auto_responses_sent = 1
    /\ Dispositions = 2
    /\ \E c, e \in 1..Len(calls) :
          /\ c # e
          /\ \E i \in 1..Len(calls[c].tasks) : calls[c].tasks[i].pc = "awaiting"
          /\ \E i \in 1..Len(calls[e].tasks) : calls[e].tasks[i].pc = "awaiting"


\* C39: with command processing enabled, a non-spam comment that starts with
\* '!' but whose first token is not a command of the table (as
\* _process_command looks it up) produces neither a COMMAND nor an
\* AUTO_RESPONSE event, even if it contains an auto-response keyword, and
\* leaves commands_processed and auto_responses_sent unchanged.
C39_UnknownCommandIsSilent ==
    [][\A event \in HandledEvents :
          (/\ event.type = "comment"
           /\ ~_is_spam(event.data.comment)
           /\ startswith(event.data.comment, <<"!">>)
           /\ features.command_processing
           /\ ~MatchesCommand(event.data.comment)
           /\ HandlesComment(event))
          => /\ Caused(event_history', "command", event.id) = {}
             /\ Caused(event_history', "auto_response", event.id) = {}
             /\ bot_stats'.commands_processed = bot_stats.commands_processed
             /\ bot_stats'.auto_responses_sent = bot_stats.auto_responses_sent]_vars

\* C39 witness: handle_comment has returned for a comment that starts with
\* '!', is no command of the table and contains an auto-response keyword,
\* with command processing and auto response enabled.
C39_Witness ==
    /\ features.command_processing
    /\ features.auto_response
    /\ \E c \in 1..Len(calls) :
          /\ calls[c].event.type = "comment"
          /\ startswith(calls[c].event.data.comment, <<"!">>)
          /\ ~_is_spam(calls[c].event.data.comment)
          /\ ~MatchesCommand(calls[c].event.data.comment)
          /\ MatchingKeywords(calls[c].event.data.comment) # {}
          /\ \E i \in 1..Len(calls[c].tasks) :
                /\ calls[c].tasks[i].handler = "handle_comment"
                /\ calls[c].tasks[i].pc = "returned"
          /\ bot_stats.messages_received = 1
          /\ bot_stats.commands_processed = 0
          /\ bot_stats.auto_responses_sent = 0


\* the BOT_STOP events of the history
BotStops == {n \in 1..Len(event_history) : event_history[n].type = "bot_stop"}

\* C40: shutdown is idempotent under concurrency.  Whatever the interleaving
\* of stop() calls, BOT_STOP is emitted at most once and only after start()
\* has succeeded, the shutdown of the TTS manager is begun at most once, and
\* when stop() has run to its end BOT_STOP has been emitted exactly once
\* and the manager is shut down; a stop() call on a bot that is not running
\* changes nothing and emits nothing.
C40_ShutdownIsIdempotent ==
    /\ [](/\ Cardinality(BotStops) <= (IF start_call = "returned" THEN 1 ELSE 0)
          /\ stop_call = "returned"
             => /\ Cardinality(BotStops) = 1
                /\ tts_manager # None => tts_stop = "returned")
    /\ [][/\ (~is_running /\ stop) => UNCHANGED vars
          /\ tts_stop' # tts_stop
             => \/ tts_stop = "idle"
                \/ tts_stop = "sleeping" /\ tts_stop' = "returned"]_vars

\* C40 witness: stop() was suspended in client.disconnect(), where further
\* stop() calls find the bot not running, and has run to its end with one
\* BOT_STOP event and the TTS manager shut down.
C40_Witness ==
    /\ stop_call = "returned"
    /\ tts_manager # None
    /\ tts_stop = "returned"
    /\ Cardinality(BotStops) = 1
    /\ \E k \in 1..Len(disconnects) : disconnects[k].cause = "stop"
====
